---- MODULE Spec2Model ----
(***************************************************************************)
(* Resource-requests admission controller: the policy store (Configurer),  *)
(* its loader and live reload, and the admission decision                   *)
(* (ResourceRequestsAdmission) that reads it.                               *)
(*                                                                          *)
(* Quantities are integers in milli-units (resource.Quantity is a signed    *)
(* decimal; "1" is 1000, "500m" is 500).  An optional quantity              *)
(* (a pointer to a Quantity) is the empty sequence for nil, else <<q>>.     *)
(* Object names are sequences of dash-delimited segments: <<"app","x">> is  *)
(* the name app-x and <<>> is the empty name.                               *)
(***************************************************************************)
EXTENDS Integers, Sequences, FiniteSets, TLC

VARIABLES
    c,          \* the Configurer: globals and the two override tables
    loadErr,    \* what the most recent load() returned ("" is nil)
    lastDoc,    \* history: the document the most recent load() was given
    loads,      \* history: number of load() calls made so far
    resp,       \* the most recent admission request with its outcome
    m,          \* the Configurer's RWMutex: writer held, number of readers
    loader,     \* the Watch goroutine's position inside load()
    reader,     \* a handler goroutine's position inside a getter
    hist,       \* history: the configurer as of the last Unlock, and the
                \* values it had at an Unlock during the reader's call
    proc,       \* the process: where main is, where the Watch goroutine is,
                \* whether the watcher was closed
    heap        \* the Quantity objects behind the pointers: those the store
                \* holds and those a getter has handed to its caller

vars == <<c, loadErr, lastDoc, loads, resp, m, loader, reader, hist, proc, heap>>

-----------------------------------------------------------------------------
(* Bounds of the model. *)

\* load() calls in one behaviour: the one of NewConfigurer, then reloads.
MaxLoads == 3

\* load() calls in one behaviour when load() and the getters run step by step.
MaxWatchLoads == 2

\* dash-delimited segments in a pod name.
MaxSegments == 4

\* load() calls in one behaviour of the whole process.
MaxMainLoads == 3

\* containers in one pod template.
MaxContainers == 2

-----------------------------------------------------------------------------
(* Quantities. *)

Nil == <<>>

Some(q) == <<q>>

\* The quantity strings the model writes into documents, with their values.
QuantityStrings == {"500m", "1", "1000m", "2", "3", "-1"}

MilliValue(s) ==
    CASE s = "500m"  -> 500
      [] s = "1"     -> 1000
      [] s = "1000m" -> 1000
      [] s = "2"     -> 2000
      [] s = "3"     -> 3000
      [] s = "-1"    -> 0 - 1000
      [] OTHER       -> 0

\* resource.ParseQuantity: a quantity, or an error for any other string.
ParseQuantity(s) ==
    IF s \in QuantityStrings
    THEN [err |-> FALSE, q |-> MilliValue(s)]
    ELSE [err |-> TRUE, q |-> 0]

\* Quantity.Cmp: -1, 0, 1.
Cmp(a, b) == IF a < b THEN 0 - 1 ELSE IF a > b THEN 1 ELSE 0

-----------------------------------------------------------------------------
(* Identities. *)

NameNamespace(name, namespace) == [Name |-> name, Namespace |-> namespace]

\* The namespace and the (name, namespace) pair documents may key overrides by.
NsKeys == {"ns1"}

NameKeys == {NameNamespace(<<"app">>, "ns1")}

\* Lookup targets: with and without an override of either sort.
TargetNames == {<<>>, <<"app">>, <<"web">>}

TargetNamespaces == {"ns1", "ns2"}

Targets == {NameNamespace(n, ns) : n \in TargetNames, ns \in TargetNamespaces}

-----------------------------------------------------------------------------
(* Documents: what ioutil.ReadFile and yaml.Unmarshal give load(). *)

Limit(cpu, mem, pvc, unlimited) ==
    [CPULimit |-> cpu, MemLimit |-> mem, PVCSize |-> pvc, Unlimited |-> unlimited]

GoodLimits ==
    { Limit("1", "", "", FALSE),
      Limit("", "", "1000m", FALSE),
      Limit("500m", "500m", "500m", FALSE),
      Limit("", "", "", TRUE) }

\* One entry per first unparseable field; the fields before it parse.
BadLimits ==
    { Limit("abc", "", "", FALSE),
      Limit("1", "abc", "", FALSE),
      Limit("1", "1", "abc", FALSE) }

EmptyMap == [k \in {} |-> Limit("", "", "", FALSE)]

MapsOver(keys, limits) ==
    {EmptyMap} \cup UNION {[ks -> limits] : ks \in (SUBSET keys) \ {{}}}

Config(cpu, mem, pvc, namespaces, names) ==
    [readable |-> TRUE, wellFormed |-> TRUE,
     MaxCPULimit |-> cpu, MaxMemLimit |-> mem, MaxPvcSize |-> pvc,
     Namespaces |-> namespaces, Names |-> names]

GoodGlobals ==
    { <<"", "", "">>, <<"2", "2", "2">>, <<"3", "", "">>, <<"-1", "-1", "-1">> }

BadGlobals == { <<"abc", "", "">>, <<"3", "abc", "">>, <<"3", "3", "abc">> }

GoodDocs ==
    { Config(g[1], g[2], g[3], nss, nms) :
        g \in GoodGlobals,
        nss \in MapsOver(NsKeys, GoodLimits),
        nms \in MapsOver(NameKeys, GoodLimits) }

\* Documents whose load fails: at a global field, at a namespace entry, at a
\* name entry, and before anything is parsed.
BadGlobalDocs ==
    { Config(g[1], g[2], g[3], EmptyMap, EmptyMap) : g \in BadGlobals }

BadNamespaceDocs ==
    { Config(g[1], g[2], g[3], nss, EmptyMap) :
        g \in {<<"", "", "">>, <<"3", "", "">>},
        nss \in MapsOver(NsKeys, BadLimits) \ {EmptyMap} }

BadNameDocs ==
    { Config(g[1], g[2], g[3], nss, nms) :
        g \in {<<"3", "", "">>},
        nss \in MapsOver(NsKeys, {Limit("1", "", "", FALSE)}),
        nms \in MapsOver(NameKeys, BadLimits) \ {EmptyMap} }

UnreadableDoc == [Config("", "", "", EmptyMap, EmptyMap) EXCEPT !.readable = FALSE]

MalformedDoc == [Config("", "", "", EmptyMap, EmptyMap) EXCEPT !.wellFormed = FALSE]

Docs ==
    GoodDocs \cup BadGlobalDocs \cup BadNamespaceDocs \cup BadNameDocs
        \cup {UnreadableDoc, MalformedDoc}

-----------------------------------------------------------------------------
(* The Configurer. *)

LimitResource(cpu, mem, pvc, unlimited) ==
    [CPULimit |-> cpu, MemLimit |-> mem, PVCSize |-> pvc, Unlimited |-> unlimited]

EmptyTable == [k \in {} |-> LimitResource(Nil, Nil, Nil, FALSE)]

\* The struct NewConfigurer builds, before its first load().
NewConfigurerValue ==
    [maxCPULimit |-> Nil, maxMemLimit |-> Nil, maxPvcSize |-> Nil,
     excludedNamespaces |-> EmptyTable, excludedNames |-> EmptyTable]

\* ConvertField with the inheritance from the global left out.
ConvertFieldNoInherit(own, global) ==
    IF own # ""
    THEN LET p == ParseQuantity(own)
         IN  IF p.err THEN [err |-> TRUE, q |-> Nil]
                      ELSE [err |-> FALSE, q |-> Some(p.q)]
    ELSE [err |-> FALSE, q |-> Nil]

\* One switch of convertLimitsToResources: the entry's own string if it has
\* one, else a copy of the global as the configurer holds it now, else nil.
ConvertField(own, global) ==
    IF own # ""
    THEN LET p == ParseQuantity(own)
         IN  IF p.err THEN [err |-> TRUE, q |-> Nil]
                      ELSE [err |-> FALSE, q |-> Some(p.q)]
    ELSE [err |-> FALSE, q |-> global]

convertLimitsToResources(cfg, limit) ==
    LET cpu == ConvertField(limit.CPULimit, cfg.maxCPULimit)
        mem == ConvertField(limit.MemLimit, cfg.maxMemLimit)
        pvc == ConvertField(limit.PVCSize, cfg.maxPvcSize)
    IN  IF cpu.err THEN [err |-> "could not parse CPULimit",
                         r |-> LimitResource(Nil, Nil, Nil, FALSE)]
        ELSE IF mem.err THEN [err |-> "could not parse MemLimit",
                              r |-> LimitResource(Nil, Nil, Nil, FALSE)]
        ELSE IF pvc.err THEN [err |-> "could not parse PVCSize",
                              r |-> LimitResource(Nil, Nil, Nil, FALSE)]
        ELSE [err |-> "",
              r |-> LimitResource(cpu.q, mem.q, pvc.q, limit.Unlimited)]

\* One global field of load(): an empty string leaves the field as it is.
LoadGlobal(str, old) ==
    IF str = ""
    THEN [err |-> FALSE, q |-> old]
    ELSE LET p == ParseQuantity(str)
         IN  IF p.err THEN [err |-> TRUE, q |-> old]
                      ELSE [err |-> FALSE, q |-> Some(p.q)]

\* The three global fields of load(), in order, stopping at the first error.
LoadGlobals(cfg, doc) ==
    LET cpu == LoadGlobal(doc.MaxCPULimit, cfg.maxCPULimit)
        c1  == [cfg EXCEPT !.maxCPULimit = cpu.q]
        mem == LoadGlobal(doc.MaxMemLimit, cfg.maxMemLimit)
        c2  == [c1 EXCEPT !.maxMemLimit = mem.q]
        pvc == LoadGlobal(doc.MaxPvcSize, cfg.maxPvcSize)
        c3  == [c2 EXCEPT !.maxPvcSize = pvc.q]
    IN  IF cpu.err THEN [err |-> "could not parse MaxCPULimit", cfg |-> cfg]
        ELSE IF mem.err THEN [err |-> "could not parse MaxMemLimit", cfg |-> c1]
        ELSE IF pvc.err THEN [err |-> "could not parse MaxPvcSize", cfg |-> c2]
        ELSE [err |-> "", cfg |-> c3]

\* The keys of a document map whose entry does not convert.
BadKeys(cfg, entries) ==
    {k \in DOMAIN entries : convertLimitsToResources(cfg, entries[k]).err # ""}

\* The table holding the converted entries of the keys in ks.
Converted(cfg, entries, ks) ==
    [k \in ks |-> convertLimitsToResources(cfg, entries[k]).r]

\* One range loop of load() over a document map.  Go ranges over a map in no
\* fixed order: when an entry fails, the table holds any of the convertible
\* entries, those the loop happened to reach first.
LoadTable(cfg, entries) ==
    IF BadKeys(cfg, entries) = {}
    THEN {[err |-> "", table |-> Converted(cfg, entries, DOMAIN entries)]}
    ELSE {[err |-> convertLimitsToResources(cfg, entries[b]).err,
           table |-> Converted(cfg, entries, ks)] :
            b \in BadKeys(cfg, entries),
            ks \in SUBSET (DOMAIN entries \ BadKeys(cfg, entries))}

\* load(): every (configurer, error) it can end with, given the document.
load(cfg, doc) ==
    IF ~doc.readable THEN {[err |-> "unable to read file", cfg |-> cfg]}
    ELSE IF ~doc.wellFormed THEN {[err |-> "unable to unmarshal yaml file", cfg |-> cfg]}
    ELSE
    LET g == LoadGlobals(cfg, doc)
        \* both tables are replaced by empty ones before either loop runs
        c0 == [g.cfg EXCEPT !.excludedNamespaces = EmptyTable,
                            !.excludedNames = EmptyTable]
    IN  IF g.err # "" THEN {[err |-> g.err, cfg |-> g.cfg]}
        ELSE UNION {
            IF nss.err # ""
            THEN {[err |-> nss.err,
                   cfg |-> [c0 EXCEPT !.excludedNamespaces = nss.table]]}
            ELSE {[err |-> nms.err,
                   cfg |-> [c0 EXCEPT !.excludedNamespaces = nss.table,
                                      !.excludedNames = nms.table]] :
                    nms \in LoadTable(c0, doc.Names)}
            : nss \in LoadTable(c0, doc.Namespaces)}

\* Resolve with the namespace table consulted before the name table.
ResolveNamespaceFirst(cfg, nn) ==
    IF nn.Namespace \in DOMAIN cfg.excludedNamespaces
    THEN [kind |-> "namespace", limit |-> cfg.excludedNamespaces[nn.Namespace]]
    ELSE IF nn \in DOMAIN cfg.excludedNames
    THEN [kind |-> "name", limit |-> cfg.excludedNames[nn]]
    ELSE [kind |-> "global",
          limit |-> LimitResource(cfg.maxCPULimit, cfg.maxMemLimit,
                                  cfg.maxPvcSize, FALSE)]

\* The precedence shared by both getters: the table entry that governs nn.
\* kind is "name", "namespace" or "global".
Resolve(cfg, nn) ==
    IF nn \in DOMAIN cfg.excludedNames
    THEN [kind |-> "name", limit |-> cfg.excludedNames[nn]]
    ELSE IF nn.Namespace \in DOMAIN cfg.excludedNamespaces
    THEN [kind |-> "namespace", limit |-> cfg.excludedNamespaces[nn.Namespace]]
    ELSE [kind |-> "global",
          limit |-> LimitResource(cfg.maxCPULimit, cfg.maxMemLimit,
                                  cfg.maxPvcSize, FALSE)]

\* GetPodLimit returning unlimited when the namespace's entry is unlimited,
\* before it looks for an exact entry.
GetPodLimitNamespaceUnlimited(cfg, nn) ==
    LET r == Resolve(cfg, nn)
    IN  IF \/ r.limit.Unlimited
           \/ /\ nn.Namespace \in DOMAIN cfg.excludedNamespaces
              /\ cfg.excludedNamespaces[nn.Namespace].Unlimited
        THEN [cpu |-> Nil, mem |-> Nil, unlimited |-> TRUE]
        ELSE [cpu |-> r.limit.CPULimit, mem |-> r.limit.MemLimit, unlimited |-> FALSE]

GetPodLimit(cfg, nn) ==
    LET r == Resolve(cfg, nn)
    IN  IF r.limit.Unlimited
        THEN [cpu |-> Nil, mem |-> Nil, unlimited |-> TRUE]
        ELSE [cpu |-> r.limit.CPULimit, mem |-> r.limit.MemLimit, unlimited |-> FALSE]

GetMaxPVCSize(cfg, nn) ==
    LET r == Resolve(cfg, nn)
    IN  IF r.limit.Unlimited
        THEN [pvc |-> Nil, unlimited |-> TRUE]
        ELSE [pvc |-> r.limit.PVCSize, unlimited |-> FALSE]

-----------------------------------------------------------------------------
(* Admission requests. *)

deploymentKind == "Deployment"

statefulsetKind == "Statefulset"

daemonsetKind == "DaemonSet"

podKind == "Pod"

jobKind == "Job"

cronJobKind == "CronJob"

pvcKind == "PersistentVolumeClaim"

\* The kinds whose case of handleAdmission decodes a pod template.
PodTemplateKinds ==
    {podKind, deploymentKind, statefulsetKind, daemonsetKind, jobKind, cronJobKind}

\* Kinds as requests carry them: the orchestrator spells the stateful set
\* "StatefulSet"; "Service" stands for every kind without a case.
RequestKinds == PodTemplateKinds \cup {pvcKind, "StatefulSet", "Service"}

Create == "CREATE"

Update == "UPDATE"

Operations == {Create, Update, "DELETE"}

\* A container's resources: each of the four entries is declared or absent.
Container(reqCPU, reqMem, limCPU, limMem) ==
    [reqCPU |-> reqCPU, reqMem |-> reqMem, limCPU |-> limCPU, limMem |-> limMem]

ContainerRequests ==
    { <<Some(0), Some(0)>>, <<Nil, Some(0)>>, <<Some(0), Nil>>,
      <<Some(500), Some(0)>>, <<Some(0), Some(500)>> }

ContainerLimits ==
    { <<Nil, Nil>>, <<Nil, Some(2000)>>, <<Some(2000), Some(2000)>>,
      <<Some(2001), Some(2000)>>, <<Some(2000), Some(2001)>> }

Containers ==
    { Container(r[1], r[2], l[1], l[2]) :
        r \in ContainerRequests, l \in ContainerLimits }

\* A container that passes every check under the ceilings of the model, used
\* to fill the positions before the one under test.
PassingContainer == Container(Some(0), Some(0), Nil, Nil)

\* Pod templates: up to MaxContainers containers, all but the last passing.
PodTemplates ==
    {<<>>} \cup
    UNION { { [i \in 1..n |-> IF i = n THEN last ELSE PassingContainer] :
                last \in Containers } \cup
            { [i \in 1..n |-> IF i = 1 THEN first ELSE PassingContainer] :
                first \in Containers }
            : n \in 1..MaxContainers }

ObjectNames == {<<"app">>, <<"web">>, <<"app", "7d9f8c6b5", "x2z4k">>}

StorageSizes == {Nil, Some(500), Some(2000), Some(2001)}

\* The object of a request as json.Unmarshal sees it.
Object(decodes, name, containers, storage) ==
    [decodes |-> decodes, Name |-> name, Containers |-> containers,
     Storage |-> storage]

Request(op, kind, namespace, obj) ==
    [UID |-> "uid-1", Operation |-> op, Kind |-> kind, Namespace |-> namespace,
     Object |-> obj]

WorkloadRequests ==
    { Request(op, kind, ns, Object(TRUE, name, cs, Nil)) :
        op \in {Create, Update}, kind \in RequestKinds \ {pvcKind},
        ns \in TargetNamespaces, name \in ObjectNames, cs \in PodTemplates }

ClaimRequests ==
    { Request(op, pvcKind, ns, Object(TRUE, name, <<>>, size)) :
        op \in {Create, Update}, ns \in TargetNamespaces,
        name \in ObjectNames, size \in StorageSizes }

UndecodableRequests ==
    { Request(op, kind, "ns1", Object(FALSE, <<>>, <<>>, Nil)) :
        op \in Operations, kind \in RequestKinds }

OtherOperationRequests ==
    { Request("DELETE", kind, "ns1",
              Object(TRUE, <<"app">>, <<Container(Some(500), Nil, Some(2001), Nil)>>, Nil)) :
        kind \in RequestKinds }

\* The same requests under a second UID: every claim request, every request
\* that is not decoded, and the workloads named app in ns1.
OtherUIDRequests ==
    { [r EXCEPT !.UID = "uid-2"] :
        r \in ClaimRequests \cup UndecodableRequests \cup OtherOperationRequests
              \cup { w \in WorkloadRequests :
                        w.Namespace = "ns1" /\ w.Object.Name = <<"app">> } }

Requests ==
    WorkloadRequests \cup ClaimRequests \cup UndecodableRequests
        \cup OtherOperationRequests \cup OtherUIDRequests

-----------------------------------------------------------------------------
(* The admission decision. *)

\* The value an absent resource entry is read as (ResourceList.Cpu, .Memory).
ValueOrZero(opt) == IF opt = Nil THEN 0 ELSE opt[1]

Allow(req) == [kind |-> "response", UID |-> req.UID, Allowed |-> TRUE, Result |-> Nil]

\* A denial built without the request's UID.
DenyWithoutUID(req, check, container, value, ceiling) ==
    [kind |-> "response", UID |-> "", Allowed |-> FALSE,
     Result |-> Some([check |-> check, container |-> container,
                      value |-> value, ceiling |-> ceiling])]

\* A denial: the status message names the check, the container (by its
\* position in the template), the declared value and the ceiling it cites.
Deny(req, check, container, value, ceiling) ==
    [kind |-> "response", UID |-> req.UID, Allowed |-> FALSE,
     Result |-> Some([check |-> check, container |-> container,
                      value |-> value, ceiling |-> ceiling])]

DecodeError == [kind |-> "error", err |-> "unable to unmarshal json"]

\* A nil pointer dereference: the handler goroutine aborts, nothing is returned.
Panic == [kind |-> "panic"]

\* FailedCheck without the two "request greater than zero" checks.
FailedCheckRequestsUnchecked(ct, cpuLimit, memLimit) ==
    IF ct.reqCPU = Nil THEN "requests.CPU is empty"
    ELSE IF ct.reqMem = Nil THEN "requests.Memory is empty"
    ELSE IF cpuLimit # Nil /\ Cmp(ValueOrZero(ct.limCPU), cpuLimit[1]) > 0
         THEN "limits.CPU"
    ELSE IF memLimit # Nil /\ Cmp(ValueOrZero(ct.limMem), memLimit[1]) > 0
         THEN "limits.Memory"
    ELSE ""

\* FailedCheck with a limit equal to the ceiling counted as above it.
FailedCheckAtOrAbove(ct, cpuLimit, memLimit) ==
    IF ct.reqCPU = Nil THEN "requests.CPU is empty"
    ELSE IF ct.reqMem = Nil THEN "requests.Memory is empty"
    ELSE IF Cmp(ValueOrZero(ct.reqCPU), 0) > 0 THEN "requests.CPU > 0"
    ELSE IF Cmp(ValueOrZero(ct.reqMem), 0) > 0 THEN "requests.Memory > 0"
    ELSE IF cpuLimit # Nil /\ Cmp(ValueOrZero(ct.limCPU), cpuLimit[1]) >= 0
         THEN "limits.CPU"
    ELSE IF memLimit # Nil /\ Cmp(ValueOrZero(ct.limMem), memLimit[1]) >= 0
         THEN "limits.Memory"
    ELSE ""

\* FailedCheck with the memory limit compared against the CPU ceiling.
FailedCheckWrongCeiling(ct, cpuLimit, memLimit) ==
    IF ct.reqCPU = Nil THEN "requests.CPU is empty"
    ELSE IF ct.reqMem = Nil THEN "requests.Memory is empty"
    ELSE IF Cmp(ValueOrZero(ct.reqCPU), 0) > 0 THEN "requests.CPU > 0"
    ELSE IF Cmp(ValueOrZero(ct.reqMem), 0) > 0 THEN "requests.Memory > 0"
    ELSE IF cpuLimit # Nil /\ Cmp(ValueOrZero(ct.limCPU), cpuLimit[1]) > 0
         THEN "limits.CPU"
    ELSE IF cpuLimit # Nil /\ Cmp(ValueOrZero(ct.limMem), cpuLimit[1]) > 0
         THEN "limits.Memory"
    ELSE ""

\* FailedCheck with an undeclared limit failing under every defined ceiling.
FailedCheckUndeclaredFails(ct, cpuLimit, memLimit) ==
    IF ct.reqCPU = Nil THEN "requests.CPU is empty"
    ELSE IF ct.reqMem = Nil THEN "requests.Memory is empty"
    ELSE IF Cmp(ValueOrZero(ct.reqCPU), 0) > 0 THEN "requests.CPU > 0"
    ELSE IF Cmp(ValueOrZero(ct.reqMem), 0) > 0 THEN "requests.Memory > 0"
    ELSE IF cpuLimit # Nil /\ (ct.limCPU = Nil \/ Cmp(ValueOrZero(ct.limCPU), cpuLimit[1]) > 0)
         THEN "limits.CPU"
    ELSE IF memLimit # Nil /\ (ct.limMem = Nil \/ Cmp(ValueOrZero(ct.limMem), memLimit[1]) > 0)
         THEN "limits.Memory"
    ELSE ""

\* The checks of validatePodSpec on one container, in order; "" when it passes.
FailedCheck(ct, cpuLimit, memLimit) ==
    IF ct.reqCPU = Nil THEN "requests.CPU is empty"
    ELSE IF ct.reqMem = Nil THEN "requests.Memory is empty"
    ELSE IF Cmp(ValueOrZero(ct.reqCPU), 0) > 0 THEN "requests.CPU > 0"
    ELSE IF Cmp(ValueOrZero(ct.reqMem), 0) > 0 THEN "requests.Memory > 0"
    ELSE IF cpuLimit # Nil /\ Cmp(ValueOrZero(ct.limCPU), cpuLimit[1]) > 0
         THEN "limits.CPU"
    ELSE IF memLimit # Nil /\ Cmp(ValueOrZero(ct.limMem), memLimit[1]) > 0
         THEN "limits.Memory"
    ELSE ""

\* The denial validatePodSpec returns for container i failing the check.
DenyContainer(req, i, ct, check, cpuLimit, memLimit) ==
    CASE check = "requests.CPU is empty"    -> Deny(req, check, i, Nil, Nil)
      [] check = "requests.Memory is empty" -> Deny(req, check, i, Nil, Nil)
      [] check = "requests.CPU > 0"         -> Deny(req, check, i, ct.reqCPU, Nil)
      [] check = "requests.Memory > 0"      -> Deny(req, check, i, ct.reqMem, Nil)
      [] check = "limits.CPU"
            -> Deny(req, check, i, Some(ValueOrZero(ct.limCPU)), cpuLimit)
      [] OTHER
            -> Deny(req, check, i, Some(ValueOrZero(ct.limMem)), memLimit)

\* validatePodSpec reporting the last failing container instead of the first.
validatePodSpecLastFailing(req, containers, cpuLimit, memLimit) ==
    LET failing == {i \in 1..Len(containers) :
                       FailedCheck(containers[i], cpuLimit, memLimit) # ""}
    IN  IF failing = {} THEN Nil
        ELSE LET i == CHOOSE j \in failing : \A k \in failing : k <= j
             IN  Some(DenyContainer(req, i, containers[i],
                                    FailedCheck(containers[i], cpuLimit, memLimit),
                                    cpuLimit, memLimit))

\* validatePodSpec: the denial of the first failing container, Nil for none.
validatePodSpec(req, containers, cpuLimit, memLimit) ==
    LET failing == {i \in 1..Len(containers) :
                       FailedCheck(containers[i], cpuLimit, memLimit) # ""}
    IN  IF failing = {} THEN Nil
        ELSE LET i == CHOOSE j \in failing : \A k \in failing : j <= k
             IN  Some(DenyContainer(req, i, containers[i],
                                    FailedCheck(containers[i], cpuLimit, memLimit),
                                    cpuLimit, memLimit))

\* Dash-delimited segments of a name, by what the class [0-9A-Za-z] makes of
\* them: alphanumeric throughout, or alphanumeric at the start only ("v1.2"
\* has a dot); the empty segment (between two adjacent dashes) is neither.
AlnumSegments == {"app", "web", "my", "7d9f8c6b5", "x2z4k"}

PartAlnumSegments == {"v1.2"}

FullAlnum(seg) == seg \in AlnumSegments

StartsAlnum(seg) == seg \in AlnumSegments \cup PartAlnumSegments

\* The first group of a match that leaves the first k segments to "(.*)".
Stem(name, k) == IF k = 1 /\ name[1] = "" THEN <<>> ELSE SubSeq(name, 1, k)

\* podIDRegex "(.*)(-[0-9A-Za-z]+-[0-9A-Za-z]+)": the stems it can leave.  The
\* match is not anchored at the end, so the last segment matched need only
\* start alphanumeric.
podIDRegex(name) ==
    {k \in 1..(Len(name) - 2) : FullAlnum(name[k + 1]) /\ StartsAlnum(name[k + 2])}

\* podID2Regex "(.*)(-[0-9A-Za-z]+)"
podID2Regex(name) ==
    {k \in 1..(Len(name) - 1) : StartsAlnum(name[k + 1])}

\* The greedy "(.*)" takes the longest stem.
Longest(ks) == CHOOSE k \in ks : \A j \in ks : j <= k

\* A "(.*)" that takes the shortest stem.
Shortest(ks) == CHOOSE k \in ks : \A j \in ks : k <= j

\* PodLookupName with the shortest stem that matches.
PodLookupNameShortestStem(name) ==
    IF podIDRegex(name) # {} THEN Stem(name, Shortest(podIDRegex(name)))
    ELSE IF podID2Regex(name) # {} THEN Stem(name, Shortest(podID2Regex(name)))
    ELSE name

\* The name a pod is looked up by: the first group of podIDRegex if it
\* matches, else that of podID2Regex if it matches, else the name itself.
PodLookupName(name) ==
    IF podIDRegex(name) # {} THEN Stem(name, Longest(podIDRegex(name)))
    ELSE IF podID2Regex(name) # {} THEN Stem(name, Longest(podID2Regex(name)))
    ELSE name

\* The name handleAdmission passes to the Configurer for the request's kind.
LookupName(req) ==
    IF req.Kind = podKind THEN PodLookupName(req.Object.Name) ELSE req.Object.Name

\* HandleClaim with a size equal to the ceiling denied.
HandleClaimAtOrAbove(cfg, req) ==
    LET lim == GetMaxPVCSize(cfg, NameNamespace(req.Object.Name, req.Namespace))
        vSize == req.Object.Storage
    IN  IF lim.unlimited THEN Allow(req)
        ELSE IF vSize = Nil THEN Deny(req, "size is empty", 0, Nil, Nil)
        ELSE IF lim.pvc = Nil THEN Panic
        ELSE IF Cmp(vSize[1], lim.pvc[1]) >= 0
             THEN Deny(req, "size", 0, vSize, lim.pvc)
        ELSE Allow(req)

\* HandleClaim with a claim that declares no size passed through.
HandleClaimNoSizeAllowed(cfg, req) ==
    LET lim == GetMaxPVCSize(cfg, NameNamespace(req.Object.Name, req.Namespace))
        vSize == req.Object.Storage
    IN  IF lim.unlimited THEN Allow(req)
        ELSE IF vSize = Nil THEN Allow(req)
        ELSE IF lim.pvc = Nil THEN Panic
        ELSE IF Cmp(vSize[1], lim.pvc[1]) > 0
             THEN Deny(req, "size", 0, vSize, lim.pvc)
        ELSE Allow(req)

\* The persistent volume claim case of handleAdmission.
HandleClaim(cfg, req) ==
    LET lim == GetMaxPVCSize(cfg, NameNamespace(req.Object.Name, req.Namespace))
        vSize == req.Object.Storage
    IN  IF lim.unlimited THEN Allow(req)
        ELSE IF vSize = Nil THEN Deny(req, "size is empty", 0, Nil, Nil)
        ELSE IF lim.pvc = Nil THEN Panic
        ELSE IF Cmp(vSize[1], lim.pvc[1]) > 0
             THEN Deny(req, "size", 0, vSize, lim.pvc)
        ELSE Allow(req)

\* HandleWorkload without the return on unlimited.
HandleWorkloadNoUnlimited(cfg, req) ==
    LET lim == GetPodLimit(cfg, NameNamespace(LookupName(req), req.Namespace))
        denyResp == validatePodSpec(req, req.Object.Containers, lim.cpu, lim.mem)
    IN  IF denyResp # Nil THEN denyResp[1]
        ELSE Allow(req)

\* The six pod template cases of handleAdmission.
HandleWorkload(cfg, req) ==
    LET lim == GetPodLimit(cfg, NameNamespace(LookupName(req), req.Namespace))
        denyResp == validatePodSpec(req, req.Object.Containers, lim.cpu, lim.mem)
    IN  IF lim.unlimited THEN Allow(req)
        ELSE IF denyResp # Nil THEN denyResp[1]
        ELSE Allow(req)

\* handleAdmission decoding the body before it looks at operation and kind.
handleAdmissionDecodesFirst(cfg, req) ==
    IF ~req.Object.decodes THEN DecodeError
    ELSE IF req.Operation # Create /\ req.Operation # Update THEN Allow(req)
    ELSE IF req.Kind \in PodTemplateKinds THEN HandleWorkload(cfg, req)
    ELSE IF req.Kind = pvcKind THEN HandleClaim(cfg, req)
    ELSE Allow(req)

handleAdmission(cfg, req) ==
    IF req.Operation # Create /\ req.Operation # Update THEN Allow(req)
    ELSE IF req.Kind \in PodTemplateKinds
         THEN IF ~req.Object.decodes THEN DecodeError ELSE HandleWorkload(cfg, req)
    ELSE IF req.Kind = pvcKind
         THEN IF ~req.Object.decodes THEN DecodeError ELSE HandleClaim(cfg, req)
    ELSE Allow(req)

\* A ServeHTTP that answers a failed HandleAdmission with an allow review.
ServeHTTPAllowsOnError(req, out) ==
    IF out.kind = "panic" THEN [status |-> 0, review |-> Nil]
    ELSE IF out.kind = "error" THEN [status |-> 200, review |-> Some(Allow(req))]
    ELSE [status |-> 200, review |-> Some(out)]

\* ServeHTTP once the review is decoded: an error of HandleAdmission is
\* answered with http.Error and StatusServiceUnavailable, a response is written
\* in the admission review with status 200; a panic writes nothing (status 0).
ServeHTTP(req, out) ==
    IF out.kind = "panic" THEN [status |-> 0, review |-> Nil]
    ELSE IF out.kind = "error" THEN [status |-> 503, review |-> Nil]
    ELSE [status |-> 200, review |-> Some(out)]

\* A request as served: what HandleAdmission returned and what ServeHTTP wrote.
Served(cfg, req) ==
    [req |-> req, out |-> handleAdmission(cfg, req),
     http |-> ServeHTTP(req, handleAdmission(cfg, req))]

-----------------------------------------------------------------------------
\* No request is being served.
NoResp == <<>>

\* The zero value of sync.RWMutex.
Unlocked == [writer |-> FALSE, readers |-> 0]

\* The Watch goroutine waiting in its select.
LoaderIdle == [pc |-> "idle", config |-> Nil, err |-> "", ns |-> {}, names |-> {}]

\* A handler goroutine outside the getters.
ReaderIdle ==
    [pc |-> "idle", call |-> "", nn |-> NameNamespace(<<>>, ""),
     cpu |-> Nil, mem |-> Nil, pvc |-> Nil, unlimited |-> FALSE]

\* main before NewConfigurer: no Configurer, no Watch goroutine.  triggers
\* counts the ticks and the notifications for the watched path that Watch has
\* received; reloads and reloadErrors are the counters reload_total and
\* reload_errors_total.
Starting ==
    [main |-> "start", configurer |-> FALSE, watch |-> "notstarted",
     closed |-> FALSE, last |-> "", triggers |-> 0, reloads |-> 0,
     reloadErrors |-> 0]

\* main after a successful NewConfigurer, serving; Watch waits in its select.
Running ==
    [main |-> "serving", configurer |-> TRUE, watch |-> "select",
     closed |-> FALSE, last |-> "", triggers |-> 0, reloads |-> 0,
     reloadErrors |-> 0]

\* The address of a Quantity: a field of a global, of a table entry, or of
\* the values a getter returned.  A namespace key is a NameNamespace without name.
Addr(table, key, field) == [table |-> table, key |-> key, field |-> field]

NoKey == NameNamespace(<<>>, "")

\* No Quantity allocated, no getter value in a caller's hands.
NoHeap ==
    [cells |-> [a \in {} |-> 0], call |-> "", nn |-> NoKey,
     cpu |-> Nil, mem |-> Nil, pvc |-> Nil, fresh |-> FALSE, mutations |-> 0]

\* No goroutine is inside load() or a getter.
Quiescent ==
    /\ m = Unlocked
    /\ loader = LoaderIdle
    /\ reader = ReaderIdle
    /\ hist = [released |-> c, seen |-> {}]
    /\ proc = Running
    /\ heap = NoHeap

\* NewConfigurer: the first load(); a failure returns no Configurer at all.
Init ==
    /\ \E doc \in Docs : \E out \in load(NewConfigurerValue, doc) :
          /\ out.err = ""
          /\ c = out.cfg
          /\ lastDoc = doc
    /\ loadErr = ""
    /\ loads = 1
    /\ resp = NoResp
    /\ Quiescent

\* One pass of the Watch loop that reaches load(): a tick, or a change of the
\* watched path.
Reload(doc) ==
    /\ loads < MaxLoads
    /\ \E out \in load(c, doc) :
          /\ c' = out.cfg
          /\ loadErr' = out.err
    /\ lastDoc' = doc
    /\ loads' = loads + 1
    /\ hist' = [hist EXCEPT !.released = c']
    /\ UNCHANGED <<resp, m, loader, reader, proc, heap>>

Next == \E doc \in Docs : Reload(doc)

Spec == Init /\ [][Next]_vars

\* HandleAdmission: one request is decided against the configurer as it is.
HandleAdmission ==
    /\ resp = NoResp
    /\ \E req \in Requests :
          resp' = <<Served(c, req)>>
    /\ UNCHANGED <<c, loadErr, lastDoc, loads, m, loader, reader, hist, proc, heap>>

\* ServeHTTP writes the outcome and returns.
ServeDone ==
    /\ resp # NoResp
    /\ resp' = NoResp
    /\ UNCHANGED <<c, loadErr, lastDoc, loads, m, loader, reader, hist, proc, heap>>

NextAdmission == HandleAdmission \/ ServeDone

SpecAdmission == Init /\ [][NextAdmission]_vars

-----------------------------------------------------------------------------
(* load() and the getters step by step, under the Configurer's RWMutex. *)

\* Documents the Watch goroutine finds in the file.
WatchLimits == {Limit("1", "", "", FALSE), Limit("", "", "", TRUE)}

WatchDocs ==
    { d \in GoodDocs :
        /\ <<d.MaxCPULimit, d.MaxMemLimit, d.MaxPvcSize>>
              \in {<<"", "", "">>, <<"2", "2", "2">>}
        /\ \A k \in DOMAIN d.Namespaces : d.Namespaces[k] \in WatchLimits
        /\ \A k \in DOMAIN d.Names : d.Names[k] \in WatchLimits }
      \cup BadGlobalDocs
      \cup { d \in BadNamespaceDocs : d.MaxCPULimit = "3" }
      \cup {UnreadableDoc, MalformedDoc}

\* mu.Lock() returns: no writer and no reader holds the mutex.
CanLock(mu) == ~mu.writer /\ mu.readers = 0

\* An RLock that does not wait for the writer.
CanRLockAlways(mu) == TRUE

\* mu.RLock() returns: no writer holds the mutex.
CanRLock(mu) == ~mu.writer

\* table[k] = v of a Go map.
Put(table, k, v) ==
    [x \in DOMAIN table \cup {k} |-> IF x = k THEN v ELSE table[x]]

InitWatch ==
    /\ \E doc \in WatchDocs : \E out \in load(NewConfigurerValue, doc) :
          /\ out.err = ""
          /\ c = out.cfg
          /\ lastDoc = doc
    /\ loadErr = ""
    /\ loads = 1
    /\ resp = NoResp
    /\ Quiescent

\* load() returns before taking the lock: the file cannot be read or parsed.
WatchLoadFails(doc) ==
    /\ loader.pc = "idle"
    /\ loads < MaxWatchLoads
    /\ ~doc.readable \/ ~doc.wellFormed
    /\ loadErr' = IF ~doc.readable THEN "unable to read file"
                  ELSE "unable to unmarshal yaml file"
    /\ lastDoc' = doc
    /\ loads' = loads + 1
    /\ UNCHANGED <<c, resp, m, loader, reader, hist, proc, heap>>

\* load() has read and parsed the file and is about to take the lock.
WatchLoadParsed(doc) ==
    /\ loader.pc = "idle"
    /\ loads < MaxWatchLoads
    /\ doc.readable /\ doc.wellFormed
    /\ loader' = [LoaderIdle EXCEPT !.pc = "lock", !.config = Some(doc)]
    /\ UNCHANGED <<c, loadErr, lastDoc, loads, resp, m, reader, hist, proc, heap>>

\* c.m.Lock()
LoadLock ==
    /\ loader.pc = "lock"
    /\ CanLock(m)
    /\ m' = [m EXCEPT !.writer = TRUE]
    /\ loader' = [loader EXCEPT !.pc = "MaxCPULimit"]
    /\ UNCHANGED <<c, loadErr, lastDoc, loads, resp, reader, hist, proc, heap>>

\* The failure return of load(): the deferred Unlock is still to run.
LoadReturns(err) == [loader EXCEPT !.pc = "unlock", !.err = err]

LoadMaxCPULimit ==
    /\ loader.pc = "MaxCPULimit"
    /\ LET g == LoadGlobal(loader.config[1].MaxCPULimit, c.maxCPULimit)
       IN  IF g.err
           THEN /\ loader' = LoadReturns("could not parse MaxCPULimit")
                /\ UNCHANGED c
           ELSE /\ c' = [c EXCEPT !.maxCPULimit = g.q]
                /\ loader' = [loader EXCEPT !.pc = "MaxMemLimit"]
    /\ UNCHANGED <<loadErr, lastDoc, loads, resp, m, reader, hist, proc, heap>>

LoadMaxMemLimit ==
    /\ loader.pc = "MaxMemLimit"
    /\ LET g == LoadGlobal(loader.config[1].MaxMemLimit, c.maxMemLimit)
       IN  IF g.err
           THEN /\ loader' = LoadReturns("could not parse MaxMemLimit")
                /\ UNCHANGED c
           ELSE /\ c' = [c EXCEPT !.maxMemLimit = g.q]
                /\ loader' = [loader EXCEPT !.pc = "MaxPvcSize"]
    /\ UNCHANGED <<loadErr, lastDoc, loads, resp, m, reader, hist, proc, heap>>

LoadMaxPvcSize ==
    /\ loader.pc = "MaxPvcSize"
    /\ LET g == LoadGlobal(loader.config[1].MaxPvcSize, c.maxPvcSize)
       IN  IF g.err
           THEN /\ loader' = LoadReturns("could not parse MaxPvcSize")
                /\ UNCHANGED c
           ELSE /\ c' = [c EXCEPT !.maxPvcSize = g.q]
                /\ loader' = [loader EXCEPT !.pc = "tables"]
    /\ UNCHANGED <<loadErr, lastDoc, loads, resp, m, reader, hist, proc, heap>>

\* Both tables are replaced by empty maps; the range loops have yet to start.
LoadMakeTables ==
    /\ loader.pc = "tables"
    /\ c' = [c EXCEPT !.excludedNamespaces = EmptyTable,
                      !.excludedNames = EmptyTable]
    /\ loader' = [loader EXCEPT !.pc = "namespaces",
                                !.ns = DOMAIN loader.config[1].Namespaces,
                                !.names = DOMAIN loader.config[1].Names]
    /\ UNCHANGED <<loadErr, lastDoc, loads, resp, m, reader, hist, proc, heap>>

\* One iteration of the range over config.Namespaces, in any order.
LoadNamespace ==
    /\ loader.pc = "namespaces"
    /\ loader.ns # {}
    /\ \E ns \in loader.ns :
          LET rLimit == convertLimitsToResources(c, loader.config[1].Namespaces[ns])
          IN  IF rLimit.err # ""
              THEN /\ loader' = LoadReturns(rLimit.err)
                   /\ UNCHANGED c
              ELSE /\ c' = [c EXCEPT !.excludedNamespaces = Put(@, ns, rLimit.r)]
                   /\ loader' = [loader EXCEPT !.ns = @ \ {ns}]
    /\ UNCHANGED <<loadErr, lastDoc, loads, resp, m, reader, hist, proc, heap>>

LoadNamespacesDone ==
    /\ loader.pc = "namespaces"
    /\ loader.ns = {}
    /\ loader' = [loader EXCEPT !.pc = "names"]
    /\ UNCHANGED <<c, loadErr, lastDoc, loads, resp, m, reader, hist, proc, heap>>

\* One iteration of the range over config.Names, in any order.
LoadName ==
    /\ loader.pc = "names"
    /\ loader.names # {}
    /\ \E nn \in loader.names :
          LET rLimit == convertLimitsToResources(c, loader.config[1].Names[nn])
          IN  IF rLimit.err # ""
              THEN /\ loader' = LoadReturns(rLimit.err)
                   /\ UNCHANGED c
              ELSE /\ c' = [c EXCEPT !.excludedNames = Put(@, nn, rLimit.r)]
                   /\ loader' = [loader EXCEPT !.names = @ \ {nn}]
    /\ UNCHANGED <<loadErr, lastDoc, loads, resp, m, reader, hist, proc, heap>>

LoadNamesDone ==
    /\ loader.pc = "names"
    /\ loader.names = {}
    /\ loader' = LoadReturns("")
    /\ UNCHANGED <<c, loadErr, lastDoc, loads, resp, m, reader, hist, proc, heap>>

\* The deferred c.m.Unlock(), and load() returns to Watch.
LoadUnlock ==
    /\ loader.pc = "unlock"
    /\ m' = [m EXCEPT !.writer = FALSE]
    /\ loadErr' = loader.err
    /\ lastDoc' = loader.config[1]
    /\ loads' = loads + 1
    /\ loader' = LoaderIdle
    /\ hist' = [released |-> c,
                seen |-> IF reader.pc \in {"idle", "done"}
                         THEN hist.seen ELSE hist.seen \cup {c}]
    /\ UNCHANGED <<c, resp, reader, proc, heap>>

GetterCalls == {"GetPodLimit", "GetMaxPVCSize"}

\* A handler calls a getter.
GetCall(call, nn) ==
    /\ reader.pc = "idle"
    /\ reader' = [ReaderIdle EXCEPT !.pc = "rlock", !.call = call, !.nn = nn]
    /\ hist' = [hist EXCEPT !.seen = {hist.released}]
    /\ UNCHANGED <<c, loadErr, lastDoc, loads, resp, m, loader, proc, heap>>

\* c.m.RLock()
GetRLock ==
    /\ reader.pc = "rlock"
    /\ CanRLock(m)
    /\ m' = [m EXCEPT !.readers = @ + 1]
    /\ reader' = [reader EXCEPT !.pc = "names"]
    /\ UNCHANGED <<c, loadErr, lastDoc, loads, resp, loader, hist, proc, heap>>

\* The return of a getter from inside a table branch.
ReturnFromLimit(rd, limit) ==
    IF limit.Unlimited
    THEN [rd EXCEPT !.pc = "runlock", !.unlimited = TRUE]
    ELSE IF rd.call = "GetPodLimit"
    THEN [rd EXCEPT !.pc = "runlock", !.cpu = limit.CPULimit, !.mem = limit.MemLimit]
    ELSE [rd EXCEPT !.pc = "runlock", !.pvc = limit.PVCSize]

\* limit, ok := c.excludedNames[nn]
GetNames ==
    /\ reader.pc = "names"
    /\ reader' = IF reader.nn \in DOMAIN c.excludedNames
                 THEN ReturnFromLimit(reader, c.excludedNames[reader.nn])
                 ELSE [reader EXCEPT !.pc = "namespaces"]
    /\ UNCHANGED <<c, loadErr, lastDoc, loads, resp, m, loader, hist, proc, heap>>

\* limit, ok := c.excludedNamespaces[nn.Namespace]
GetNamespaces ==
    /\ reader.pc = "namespaces"
    /\ reader' = IF reader.nn.Namespace \in DOMAIN c.excludedNamespaces
                 THEN ReturnFromLimit(reader, c.excludedNamespaces[reader.nn.Namespace])
                 ELSE [reader EXCEPT !.pc = "global"]
    /\ UNCHANGED <<c, loadErr, lastDoc, loads, resp, m, loader, hist, proc, heap>>

\* GetPodLimit reads c.maxCPULimit
GetGlobalCPU ==
    /\ reader.pc = "global"
    /\ reader.call = "GetPodLimit"
    /\ reader' = [reader EXCEPT !.pc = "globalMem", !.cpu = c.maxCPULimit]
    /\ UNCHANGED <<c, loadErr, lastDoc, loads, resp, m, loader, hist, proc, heap>>

\* GetPodLimit reads c.maxMemLimit
GetGlobalMem ==
    /\ reader.pc = "globalMem"
    /\ reader' = [reader EXCEPT !.pc = "runlock", !.mem = c.maxMemLimit]
    /\ UNCHANGED <<c, loadErr, lastDoc, loads, resp, m, loader, hist, proc, heap>>

\* GetMaxPVCSize reads c.maxPvcSize
GetGlobalPvc ==
    /\ reader.pc = "global"
    /\ reader.call = "GetMaxPVCSize"
    /\ reader' = [reader EXCEPT !.pc = "runlock", !.pvc = c.maxPvcSize]
    /\ UNCHANGED <<c, loadErr, lastDoc, loads, resp, m, loader, hist, proc, heap>>

\* The deferred c.m.RUnlock(): the getter has returned.
GetRUnlock ==
    /\ reader.pc = "runlock"
    /\ m' = [m EXCEPT !.readers = @ - 1]
    /\ reader' = [reader EXCEPT !.pc = "done"]
    /\ UNCHANGED <<c, loadErr, lastDoc, loads, resp, loader, hist, proc, heap>>

\* The handler has used the values.
GetDone ==
    /\ reader.pc = "done"
    /\ reader' = ReaderIdle
    /\ UNCHANGED <<c, loadErr, lastDoc, loads, resp, m, loader, hist, proc, heap>>

NextWatch ==
    \/ \E doc \in WatchDocs : WatchLoadFails(doc)
    \/ \E doc \in WatchDocs : WatchLoadParsed(doc)
    \/ LoadLock
    \/ LoadMaxCPULimit
    \/ LoadMaxMemLimit
    \/ LoadMaxPvcSize
    \/ LoadMakeTables
    \/ LoadNamespace
    \/ LoadNamespacesDone
    \/ LoadName
    \/ LoadNamesDone
    \/ LoadUnlock
    \/ \E call \in GetterCalls, nn \in Targets : GetCall(call, nn)
    \/ GetRLock
    \/ GetNames
    \/ GetNamespaces
    \/ GetGlobalCPU
    \/ GetGlobalMem
    \/ GetGlobalPvc
    \/ GetRUnlock
    \/ GetDone

SpecWatch == InitWatch /\ [][NextWatch]_vars

-----------------------------------------------------------------------------
(* Pod requests under names of every shape. *)

PodNameSegments == (AlnumSegments \ {"web"}) \cup PartAlnumSegments \cup {""}

\* Names of one to MaxSegments segments; the empty name is <<>>.
PodNames ==
    {<<>>} \cup
    (UNION {[1..n -> PodNameSegments] : n \in 1..MaxSegments} \ {<<"">>})

PodNameKeys ==
    {NameNamespace(<<"app">>, "ns1"), NameNamespace(<<"my", "app">>, "ns1")}

PodNameDocs ==
    { Config("2", "2", "2", nss, nms) :
        nss \in MapsOver(NsKeys, {Limit("", "", "", TRUE)}),
        nms \in MapsOver(PodNameKeys, WatchLimits) }

\* One container within the global ceilings, or one that requests CPU.
PodNameTemplates ==
    { <<Container(Some(0), Some(0), Some(2000), Some(2000))>>,
      <<Container(Some(500), Some(0), Nil, Nil)>> }

PodNameRequests ==
    { Request(Create, podKind, ns, Object(TRUE, name, cs, Nil)) :
        ns \in TargetNamespaces, name \in PodNames, cs \in PodNameTemplates }

InitPodName ==
    /\ \E doc \in PodNameDocs : \E out \in load(NewConfigurerValue, doc) :
          /\ out.err = ""
          /\ c = out.cfg
          /\ lastDoc = doc
    /\ loadErr = ""
    /\ loads = 1
    /\ resp = NoResp
    /\ Quiescent

\* HandleAdmission on a pod request.
HandlePod ==
    /\ resp = NoResp
    /\ \E req \in PodNameRequests :
          resp' = <<Served(c, req)>>
    /\ UNCHANGED <<c, loadErr, lastDoc, loads, m, loader, reader, hist, proc, heap>>

NextPodName == HandlePod \/ ServeDone

SpecPodName == InitPodName /\ [][NextPodName]_vars

-----------------------------------------------------------------------------
(* ServeHTTP from the body of the HTTP request on. *)

\* An admission review as Decoder.Decode gives it: the body does not decode,
\* or it decodes to a review whose Request is nil or points to a request.
Review(decodes, request) == [decodes |-> decodes, Request |-> request]

UndecodableReview == Review(FALSE, Nil)

ReviewWithoutRequest == Review(TRUE, Nil)

\* The requests carried by the reviews: every claim request and the
\* workloads named app in ns1.
ReviewRequests ==
    ClaimRequests \cup
    { w \in WorkloadRequests : w.Namespace = "ns1" /\ w.Object.Name = <<"app">> }

Reviews ==
    {UndecodableReview, ReviewWithoutRequest} \cup
    { Review(TRUE, Some(req)) : req \in ReviewRequests }

\* HandleAdmission was not called.
NotCalled == [kind |-> "none"]

\* ServeHTTP: a body that does not decode is answered with StatusBadRequest;
\* otherwise HandleAdmission gets review.Request as it is, and handleAdmission
\* reads req.UID first, which for a nil request is a nil dereference.
ServeReview(cfg, review) ==
    IF ~review.decodes
    THEN [review |-> review, out |-> NotCalled,
          http |-> [status |-> 400, review |-> Nil]]
    ELSE IF review.Request = Nil
    THEN [review |-> review, out |-> Panic,
          http |-> ServeHTTP(review.Request, Panic)]
    ELSE [review |-> review, out |-> handleAdmission(cfg, review.Request[1]),
          http |-> ServeHTTP(review.Request[1],
                             handleAdmission(cfg, review.Request[1]))]

\* One HTTP request is served against the configurer as it is.
ServeRequest ==
    /\ resp = NoResp
    /\ \E review \in Reviews :
          resp' = <<ServeReview(c, review)>>
    /\ UNCHANGED <<c, loadErr, lastDoc, loads, m, loader, reader, hist, proc, heap>>

NextServe == ServeRequest \/ ServeDone

SpecServe == Init /\ [][NextServe]_vars

-----------------------------------------------------------------------------
(* Workloads in which several containers fail several checks. *)

OrderRequests ==
    { <<Nil, Nil>>, <<Some(0), Nil>>, <<Some(500), Some(500)>>,
      <<Some(0), Some(500)>>, <<Some(0), Some(0)>> }

OrderLimits == { <<Nil, Nil>>, <<Some(2001), Some(2001)>>, <<Some(2000), Some(2001)>> }

OrderContainers ==
    { Container(r[1], r[2], l[1], l[2]) : r \in OrderRequests, l \in OrderLimits }

\* Every template of one to MaxContainers containers.
OrderTemplates == UNION { [1..n -> OrderContainers] : n \in 1..MaxContainers }

OrderDocs ==
    { Config(g[1], g[2], "", EmptyMap, EmptyMap) :
        g \in { <<"2", "2">>, <<"2", "">>, <<"", "">> } }

OrderRequestsServed ==
    { Request(Create, kind, "ns1", Object(TRUE, <<"app">>, cs, Nil)) :
        kind \in {podKind, deploymentKind}, cs \in OrderTemplates }

InitOrder ==
    /\ \E doc \in OrderDocs : \E out \in load(NewConfigurerValue, doc) :
          /\ out.err = ""
          /\ c = out.cfg
          /\ lastDoc = doc
    /\ loadErr = ""
    /\ loads = 1
    /\ resp = NoResp
    /\ Quiescent

\* HandleAdmission on a workload request.
HandleOrdered ==
    /\ resp = NoResp
    /\ \E req \in OrderRequestsServed :
          resp' = <<Served(c, req)>>
    /\ UNCHANGED <<c, loadErr, lastDoc, loads, m, loader, reader, hist, proc, heap>>

NextOrder == HandleOrdered \/ ServeDone

SpecOrder == InitOrder /\ [][NextOrder]_vars

-----------------------------------------------------------------------------
(* The Configer: exclusion lists and two global ceilings under an RWMutex. *)

\* Shared locks the model lets be held at once.
MaxReaders == 2

\* Loads of the Configer, the one of NewConfiger included.
MaxConfigerLoads == 2

\* Documents of the Configer: lists of excluded namespaces and names, and two
\* global ceilings.
ConfigerConfig(namespaces, names, cpu, mem) ==
    [readable |-> TRUE, wellFormed |-> TRUE, Namespaces |-> namespaces,
     Names |-> names, MaxCPULimit |-> cpu, MaxMemLimit |-> mem]

ConfigerDocs ==
    { ConfigerConfig(nss, nms, g[1], g[2]) :
        nss \in SUBSET NsKeys, nms \in SUBSET NameKeys,
        g \in { <<"", "">>, <<"3", "">>, <<"3", "2">>, <<"abc", "">>, <<"3", "abc">> } }
    \cup { [ConfigerConfig({}, {}, "", "") EXCEPT !.readable = FALSE],
           [ConfigerConfig({}, {}, "", "") EXCEPT !.wellFormed = FALSE] }

\* The Configer as NewConfiger builds it, before its first load.
NewConfigerValue ==
    [excludedNames |-> {}, excludedNamespaces |-> {},
     maxCPULimit |-> Nil, maxMemLimit |-> Nil]

\* Configer.load once the file is read and unmarshalled: the ceilings the
\* document states are parsed and stored, then the lists are added to the
\* sets; a parse error returns with what was stored before it.
ConfigerLoad(cfg, doc) ==
    IF doc.MaxCPULimit # "" /\ ParseQuantity(doc.MaxCPULimit) = Nil
    THEN [cfg |-> cfg, err |-> "could not parse MaxCPULimit"]
    ELSE LET c1 == [cfg EXCEPT !.maxCPULimit = LoadGlobal(doc.MaxCPULimit, @)]
         IN  IF doc.MaxMemLimit # "" /\ ParseQuantity(doc.MaxMemLimit) = Nil
             THEN [cfg |-> c1, err |-> "could not parse MaxMemLimit"]
             ELSE [cfg |-> [c1 EXCEPT
                              !.maxMemLimit = LoadGlobal(doc.MaxMemLimit, @),
                              !.excludedNamespaces = @ \cup doc.Namespaces,
                              !.excludedNames = @ \cup doc.Names],
                   err |-> ""]

\* A goroutine outside the reader operations of the Configer.
ConfigerReaderIdle ==
    [pc |-> "idle", call |-> "", nn |-> NoKey, excluded |-> FALSE,
     cpu |-> Nil, mem |-> Nil]

\* NewConfiger: the first load succeeded.
InitConfiger ==
    /\ \E doc \in ConfigerDocs :
          /\ doc.readable /\ doc.wellFormed
          /\ ConfigerLoad(NewConfigerValue, doc).err = ""
          /\ c = ConfigerLoad(NewConfigerValue, doc).cfg
          /\ lastDoc = doc
    /\ loadErr = ""
    /\ loads = 1
    /\ resp = NoResp
    /\ m = Unlocked
    /\ loader = LoaderIdle
    /\ reader = ConfigerReaderIdle
    /\ hist = [released |-> c, seen |-> {}]
    /\ proc = Running
    /\ heap = NoHeap

\* Configer.load: ReadFile or Unmarshal fails, before the lock is taken.
ConfigerLoadFails(doc) ==
    /\ loader.pc = "idle"
    /\ loads < MaxConfigerLoads
    /\ ~doc.readable \/ ~doc.wellFormed
    /\ loadErr' = IF ~doc.readable THEN "unable to read file"
                  ELSE "unable to unmarshal yaml file"
    /\ lastDoc' = doc
    /\ loads' = loads + 1
    /\ UNCHANGED <<c, resp, m, loader, reader, hist, proc, heap>>

\* Configer.load: the file is read and unmarshalled; the goroutine reaches
\* c.m.Lock().
ConfigerLoadParsed(doc) ==
    /\ loader.pc = "idle"
    /\ loads < MaxConfigerLoads
    /\ doc.readable /\ doc.wellFormed
    /\ loader' = [loader EXCEPT !.pc = "lock", !.config = Some(doc)]
    /\ lastDoc' = doc
    /\ loads' = loads + 1
    /\ UNCHANGED <<c, loadErr, resp, m, reader, hist, proc, heap>>

\* c.m.Lock() is granted when no lock of either kind is held.
ConfigerLoadLock ==
    /\ loader.pc = "lock"
    /\ CanLock(m)
    /\ m' = [m EXCEPT !.writer = TRUE]
    /\ loader' = [loader EXCEPT !.pc = "store"]
    /\ UNCHANGED <<c, loadErr, lastDoc, loads, resp, reader, hist, proc, heap>>

\* The body of load under the lock, and the deferred c.m.Unlock().
ConfigerLoadStore ==
    /\ loader.pc = "store"
    /\ c' = ConfigerLoad(c, loader.config[1]).cfg
    /\ loadErr' = ConfigerLoad(c, loader.config[1]).err
    /\ m' = [m EXCEPT !.writer = FALSE]
    /\ loader' = LoaderIdle
    /\ UNCHANGED <<lastDoc, loads, resp, reader, hist, proc, heap>>

ConfigerCalls == {"IsExcluded", "GetResourceLimits"}

\* A reader operation is called and reaches c.m.RLock().
ConfigerCall(call, nn) ==
    /\ reader.pc = "idle"
    /\ reader' = [ConfigerReaderIdle EXCEPT !.pc = "rlock", !.call = call, !.nn = nn]
    /\ UNCHANGED <<c, loadErr, lastDoc, loads, resp, m, loader, hist, proc, heap>>

\* c.m.RLock() is granted when no writer holds the lock.
ConfigerRLock ==
    /\ reader.pc = "rlock"
    /\ CanRLock(m)
    /\ m.readers < MaxReaders
    /\ m' = [m EXCEPT !.readers = @ + 1]
    /\ reader' = [reader EXCEPT !.pc = "read"]
    /\ UNCHANGED <<c, loadErr, lastDoc, loads, resp, loader, hist, proc, heap>>

\* IsExcluded after RLock: the two return-true branches call RUnlock, the
\* final return false does not.
IsExcludedReturn ==
    /\ reader.pc = "read"
    /\ reader.call = "IsExcluded"
    /\ LET found == \/ reader.nn.Namespace \in c.excludedNamespaces
                    \/ reader.nn \in c.excludedNames
       IN  /\ m' = [m EXCEPT !.readers = IF found THEN @ - 1 ELSE @]
           /\ reader' = [reader EXCEPT !.pc = "idle", !.excluded = found]
    /\ UNCHANGED <<c, loadErr, lastDoc, loads, resp, loader, hist, proc, heap>>

\* GetResourceLimits after RLock: copies of the two ceilings, and the deferred
\* RUnlock.
GetResourceLimitsReturn ==
    /\ reader.pc = "read"
    /\ reader.call = "GetResourceLimits"
    /\ m' = [m EXCEPT !.readers = @ - 1]
    /\ reader' = [reader EXCEPT !.pc = "idle", !.cpu = c.maxCPULimit,
                                !.mem = c.maxMemLimit]
    /\ UNCHANGED <<c, loadErr, lastDoc, loads, resp, loader, hist, proc, heap>>

NextConfiger ==
    \/ \E doc \in ConfigerDocs : ConfigerLoadFails(doc)
    \/ \E doc \in ConfigerDocs : ConfigerLoadParsed(doc)
    \/ ConfigerLoadLock
    \/ ConfigerLoadStore
    \/ \E call \in ConfigerCalls, nn \in Targets : ConfigerCall(call, nn)
    \/ ConfigerRLock
    \/ IsExcludedReturn
    \/ GetResourceLimitsReturn

SpecConfiger == InitConfiger /\ [][NextConfiger]_vars

-----------------------------------------------------------------------------
(* The process: main, NewConfigurer, the Watch loop and Close. *)

\* The path the Configurer watches, and the paths change notifications name.
FilePath == "/etc/config/config.yaml"

EventNames == {FilePath, "/etc/config/other.yaml"}

\* The document of a Configurer that has not loaded anything.
NoDoc == Config("", "", "", EmptyMap, EmptyMap)

\* What the file holds when load() reads it.
MainDocs ==
    { Config("2", "2", "2", EmptyMap, EmptyMap),
      Config("3", "", "", EmptyMap, EmptyMap),
      Config("", "", "", [k \in NsKeys |-> Limit("", "", "", TRUE)], EmptyMap),
      Config("3", "3", "abc", EmptyMap, EmptyMap),
      Config("3", "", "", [k \in NsKeys |-> Limit("abc", "", "", FALSE)], EmptyMap),
      UnreadableDoc, MalformedDoc }

MainRequests ==
    { Request(Create, deploymentKind, "ns1", Object(TRUE, <<"app">>, cs, Nil)) :
        cs \in {<<PassingContainer>>, <<Container(Some(500), Some(0), Nil, Nil)>>} }

InitMain ==
    /\ c = NewConfigurerValue
    /\ loadErr = ""
    /\ lastDoc = NoDoc
    /\ loads = 0
    /\ resp = NoResp
    /\ m = Unlocked
    /\ loader = LoaderIdle
    /\ reader = ReaderIdle
    /\ hist = [released |-> c, seen |-> {}]
    /\ proc = Starting
    /\ heap = NoHeap

\* main after NewConfigurer returned err: a failure ends the process
\* (log.Fatalf) with no Configurer and no Watch goroutine; a success starts
\* Watch and main goes on to serve.
AfterNewConfigurer(err) ==
    IF err # ""
    THEN [Starting EXCEPT !.main = "exited"]
    ELSE Running

\* A Watch loop that returns when load() fails.
AfterLoadStopsOnError(p, err) ==
    [p EXCEPT !.watch = IF err # "" THEN "returned" ELSE "select",
              !.reloadErrors = IF err # "" THEN @ + 1 ELSE @,
              !.reloads = @ + 1]

\* A Watch loop that, when load() fails, counts the error and continues
\* before it reaches reloadCounter.Inc.
AfterLoadSkipsTotalOnError(p, err) ==
    [p EXCEPT !.watch = "select",
              !.reloadErrors = IF err # "" THEN @ + 1 ELSE @,
              !.reloads = IF err # "" THEN @ ELSE @ + 1]

\* Watch after load() returned err: a failure is counted in
\* reload_errors_total and logged, every load is counted in reload_total, and
\* the loop goes back to its select.
AfterLoad(p, err) ==
    [p EXCEPT !.watch = "select",
              !.reloadErrors = IF err # "" THEN @ + 1 ELSE @,
              !.reloads = @ + 1]

\* main calls NewConfigurer, which runs the first load().
MainNewConfigurer(doc) ==
    /\ proc.main = "start"
    /\ \E out \in load(c, doc) :
          /\ c' = out.cfg
          /\ loadErr' = out.err
          /\ proc' = AfterNewConfigurer(out.err)
    /\ lastDoc' = doc
    /\ loads' = loads + 1
    /\ hist' = [hist EXCEPT !.released = c']
    /\ UNCHANGED <<resp, m, loader, reader, heap>>

\* case <-tick.C
WatchTick ==
    /\ proc.watch = "select"
    /\ loads < MaxMainLoads
    /\ proc' = [proc EXCEPT !.watch = "load", !.last = "tick",
                            !.triggers = @ + 1]
    /\ UNCHANGED <<c, loadErr, lastDoc, loads, resp, m, loader, reader, hist, heap>>

\* A Watch loop that goes on to load() after a notification for any path.
WatchEventAnyPath(name) ==
    /\ proc.watch = "select"
    /\ ~proc.closed
    /\ loads < MaxMainLoads
    /\ proc' = [proc EXCEPT !.watch = "load",
                            !.last = IF name # FilePath THEN "other event" ELSE "event",
                            !.triggers = IF name # FilePath THEN @ ELSE @ + 1]
    /\ UNCHANGED <<c, loadErr, lastDoc, loads, resp, m, loader, reader, hist, heap>>

\* case event := <-c.w.Events, the watcher open: a notification for another
\* path makes the loop continue, one for the watched path goes on to load().
WatchEvent(name) ==
    /\ proc.watch = "select"
    /\ ~proc.closed
    /\ name = FilePath => loads < MaxMainLoads
    /\ proc' = [proc EXCEPT !.watch = IF name # FilePath THEN "select" ELSE "load",
                            !.last = IF name # FilePath THEN "other event" ELSE "event",
                            !.triggers = IF name # FilePath THEN @ ELSE @ + 1]
    /\ UNCHANGED <<c, loadErr, lastDoc, loads, resp, m, loader, reader, hist, heap>>

\* case err := <-c.w.Errors, the watcher open: logged, and the loop continues.
WatchError ==
    /\ proc.watch = "select"
    /\ ~proc.closed
    /\ proc' = [proc EXCEPT !.last = "watch error"]
    /\ UNCHANGED <<c, loadErr, lastDoc, loads, resp, m, loader, reader, hist, heap>>

\* case event := <-c.w.Events, the channel closed: the receive yields the zero
\* Event at once, its Name "" is not the watched path, and the loop continues.
WatchClosedEvent ==
    /\ proc.watch = "select"
    /\ proc.closed
    /\ proc' = [proc EXCEPT !.watch = IF "" # FilePath THEN "select" ELSE "load",
                            !.last = "closed event"]
    /\ UNCHANGED <<c, loadErr, lastDoc, loads, resp, m, loader, reader, hist, heap>>

\* case err := <-c.w.Errors, the channel closed: the receive yields nil at
\* once, and the loop continues.
WatchClosedError ==
    /\ proc.watch = "select"
    /\ proc.closed
    /\ proc' = [proc EXCEPT !.last = "closed error"]
    /\ UNCHANGED <<c, loadErr, lastDoc, loads, resp, m, loader, reader, hist, heap>>

\* err := c.load() in Watch, and the rest of the iteration.
WatchLoad(doc) ==
    /\ proc.watch = "load"
    /\ \E out \in load(c, doc) :
          /\ c' = out.cfg
          /\ loadErr' = out.err
          /\ proc' = AfterLoad(proc, out.err)
    /\ lastDoc' = doc
    /\ loads' = loads + 1
    /\ hist' = [hist EXCEPT !.released = c']
    /\ UNCHANGED <<resp, m, loader, reader, heap>>

\* The owner of the Configurer calls Close: the watcher is closed, and with it
\* its Events and Errors channels.
Close ==
    /\ proc.main = "serving"
    /\ resp = NoResp
    /\ proc' = [proc EXCEPT !.main = "closed", !.closed = TRUE]
    /\ UNCHANGED <<c, loadErr, lastDoc, loads, resp, m, loader, reader, hist, heap>>

\* The server, started by main after NewConfigurer, decides one request.
MainServe ==
    /\ proc.main = "serving"
    /\ resp = NoResp
    /\ \E req \in MainRequests :
          resp' = <<Served(c, req)>>
    /\ UNCHANGED <<c, loadErr, lastDoc, loads, m, loader, reader, hist, proc, heap>>

\* The steps of the Watch goroutine.
WatchStep ==
    \/ WatchTick
    \/ \E name \in EventNames : WatchEvent(name)
    \/ WatchError
    \/ WatchClosedEvent
    \/ WatchClosedError
    \/ \E doc \in MainDocs : WatchLoad(doc)

NextMain ==
    \/ \E doc \in MainDocs : MainNewConfigurer(doc)
    \/ WatchStep
    \/ Close
    \/ MainServe
    \/ ServeDone

SpecMain == InitMain /\ [][NextMain]_vars

\* The Watch goroutine is scheduled whenever it can take a step.
SpecMainFair == SpecMain /\ WF_vars(WatchStep)

-----------------------------------------------------------------------------
(* The getters at the level of pointers: what a caller can reach. *)

\* Mutations a caller makes to the quantities it was handed.
MaxMutations == 2

\* Values a caller sets a quantity to (Quantity.Set, Add, ...).
MutateValues == {0, 7000}

QuantityFields == {"cpu", "mem", "pvc"}

\* The field of a LimitResource by its short name.
FieldOf(limit, field) ==
    CASE field = "cpu" -> limit.CPULimit
      [] field = "mem" -> limit.MemLimit
      [] OTHER         -> limit.PVCSize

GlobalField(cfg, field) ==
    CASE field = "cpu" -> cfg.maxCPULimit
      [] field = "mem" -> cfg.maxMemLimit
      [] OTHER         -> cfg.maxPvcSize

NamespaceKey(ns) == NameNamespace(<<>>, ns)

\* The Quantity objects load() has allocated for cfg: every "&q" is an
\* object of its own, also when q is a DeepCopy of a global.
StoreAddrs(cfg) ==
    {Addr("global", NoKey, f) : f \in {g \in QuantityFields : GlobalField(cfg, g) # Nil}}
    \cup {Addr("names", nn, f) :
            nn \in DOMAIN cfg.excludedNames,
            f \in QuantityFields} 
    \cup {Addr("namespaces", NamespaceKey(ns), f) :
            ns \in DOMAIN cfg.excludedNamespaces,
            f \in QuantityFields}

\* The pointer field that the address a is the target of.
PointerAt(cfg, a) ==
    CASE a.table = "global"     -> GlobalField(cfg, a.field)
      [] a.table = "names"      -> FieldOf(cfg.excludedNames[a.key], a.field)
      [] OTHER -> FieldOf(cfg.excludedNamespaces[a.key.Namespace], a.field)

\* The objects after load(): one per pointer that is not nil.
InitCells(cfg) ==
    [a \in {b \in StoreAddrs(cfg) : PointerAt(cfg, b) # Nil} |-> PointerAt(cfg, a)[1]]

\* What the pointer at address a reads now.
ViewField(cfg, cells, a) ==
    IF PointerAt(cfg, a) = Nil THEN Nil ELSE Some(cells[a])

ViewLimit(cfg, cells, table, key, limit) ==
    LimitResource(ViewField(cfg, cells, Addr(table, key, "cpu")),
                  ViewField(cfg, cells, Addr(table, key, "mem")),
                  ViewField(cfg, cells, Addr(table, key, "pvc")),
                  limit.Unlimited)

\* The store as its pointers read now.
StoreView(cfg, cells) ==
    [maxCPULimit |-> IF cfg.maxCPULimit = Nil THEN Nil
                     ELSE Some(cells[Addr("global", NoKey, "cpu")]),
     maxMemLimit |-> IF cfg.maxMemLimit = Nil THEN Nil
                     ELSE Some(cells[Addr("global", NoKey, "mem")]),
     maxPvcSize  |-> IF cfg.maxPvcSize = Nil THEN Nil
                     ELSE Some(cells[Addr("global", NoKey, "pvc")]),
     excludedNamespaces |->
        [ns \in DOMAIN cfg.excludedNamespaces |->
            ViewLimit(cfg, cells, "namespaces", NamespaceKey(ns),
                      cfg.excludedNamespaces[ns])],
     excludedNames |->
        [nn \in DOMAIN cfg.excludedNames |->
            ViewLimit(cfg, cells, "names", nn, cfg.excludedNames[nn])]]

\* The store object a getter reads for the field of nn: that of the exact
\* entry, else of the namespace entry, else the global; Nil when the entry is
\* unlimited or the pointer is nil.
ResolvedAddr(cfg, nn, field) ==
    LET r == Resolve(cfg, nn)
        a == IF r.kind = "name" THEN Addr("names", nn, field)
             ELSE IF r.kind = "namespace"
             THEN Addr("namespaces", NamespaceKey(nn.Namespace), field)
             ELSE Addr("global", NoKey, field)
    IN  IF r.limit.Unlimited \/ FieldOf(r.limit, field) = Nil THEN Nil ELSE Some(a)

\* A getter that returns the store's own pointer.
HandoutAlias(stored, copy) == stored

\* "q := limit.CPULimit.DeepCopy(); cpu = &q": the caller gets the copy.
Handout(stored, copy) == copy

\* The fields a getter returns.
ReturnedFields(call) == IF call = "GetPodLimit" THEN {"cpu", "mem"} ELSE {"pvc"}

\* The pointer a getter returns for a field.
HandedOut(cfg, call, nn, field) ==
    IF field \notin ReturnedFields(call) \/ ResolvedAddr(cfg, nn, field) = Nil
    THEN Nil
    ELSE Some(Handout(ResolvedAddr(cfg, nn, field)[1], Addr("ret", NoKey, field)))

InitHeap ==
    /\ \E doc \in GoodDocs : \E out \in load(NewConfigurerValue, doc) :
          /\ out.err = ""
          /\ c = out.cfg
          /\ lastDoc = doc
    /\ loadErr = ""
    /\ loads = 1
    /\ resp = NoResp
    /\ m = Unlocked
    /\ loader = LoaderIdle
    /\ reader = ReaderIdle
    /\ hist = [released |-> c, seen |-> {}]
    /\ proc = Running
    /\ heap = [NoHeap EXCEPT !.cells = InitCells(c)]

\* A caller calls a getter and holds the pointers it returns.
HeapGet(call, nn) ==
    /\ heap.call = ""
    /\ LET copied == {f \in ReturnedFields(call) : ResolvedAddr(c, nn, f) # Nil}
           cells == [a \in DOMAIN heap.cells \cup {Addr("ret", NoKey, f) : f \in copied} |->
                        IF a.table = "ret"
                        THEN heap.cells[ResolvedAddr(c, nn, a.field)[1]]
                        ELSE heap.cells[a]]
       IN  heap' = [heap EXCEPT !.cells = cells, !.call = call, !.nn = nn,
                                !.cpu = HandedOut(c, call, nn, "cpu"),
                                !.mem = HandedOut(c, call, nn, "mem"),
                                !.pvc = HandedOut(c, call, nn, "pvc"),
                                !.fresh = TRUE]
    /\ UNCHANGED <<c, loadErr, lastDoc, loads, resp, m, loader, reader, hist, proc>>

\* The caller changes a quantity it was handed.
HeapMutate(field, v) ==
    /\ heap.call # ""
    /\ heap[field] # Nil
    /\ heap.mutations < MaxMutations
    /\ heap' = [heap EXCEPT !.cells[heap[field][1]] = v,
                            !.fresh = FALSE,
                            !.mutations = @ + 1]
    /\ UNCHANGED <<c, loadErr, lastDoc, loads, resp, m, loader, reader, hist, proc>>

\* The caller lets go of the values.
HeapRelease ==
    /\ heap.call # ""
    /\ heap' = [NoHeap EXCEPT
                  !.cells = [a \in {b \in DOMAIN heap.cells : b.table # "ret"} |->
                                heap.cells[a]],
                  !.mutations = heap.mutations]
    /\ UNCHANGED <<c, loadErr, lastDoc, loads, resp, m, loader, reader, hist, proc>>

NextHeap ==
    \/ \E call \in GetterCalls, nn \in Targets : HeapGet(call, nn)
    \/ \E field \in QuantityFields, v \in MutateValues : HeapMutate(field, v)
    \/ HeapRelease

SpecHeap == InitHeap /\ [][NextHeap]_vars

-----------------------------------------------------------------------------
(* Properties of the policy store. *)

\* The ceiling a document string states: none for the empty string.
Stated(str) == IF str = "" THEN Nil ELSE Some(MilliValue(str))

\* What both getters must return for a target governed by the document entry
\* limit: its flag; its own value for a field it sets; for a field it leaves
\* unset, the global the configurer holds.
Governs(limit, pod, pvc) ==
    /\ pod.unlimited = limit.Unlimited
    /\ pvc.unlimited = limit.Unlimited
    /\ ~limit.Unlimited =>
         /\ pod.cpu = (IF limit.CPULimit # "" THEN Stated(limit.CPULimit)
                                               ELSE c.maxCPULimit)
         /\ pod.mem = (IF limit.MemLimit # "" THEN Stated(limit.MemLimit)
                                               ELSE c.maxMemLimit)
         /\ pvc.pvc = (IF limit.PVCSize # "" THEN Stated(limit.PVCSize)
                                              ELSE c.maxPvcSize)

\* What both getters must return for a target no override governs.
GovernedByGlobal(pod, pvc) ==
    /\ pod = [cpu |-> c.maxCPULimit, mem |-> c.maxMemLimit, unlimited |-> FALSE]
    /\ pvc = [pvc |-> c.maxPvcSize, unlimited |-> FALSE]
    /\ lastDoc.MaxCPULimit # "" => pod.cpu = Stated(lastDoc.MaxCPULimit)
    /\ lastDoc.MaxMemLimit # "" => pod.mem = Stated(lastDoc.MaxMemLimit)
    /\ lastDoc.MaxPvcSize # "" => pvc.pvc = Stated(lastDoc.MaxPvcSize)

\* C1: after every successful load, for every target, GetPodLimit and
\* GetMaxPVCSize answer from the document's exact (name, namespace) entry if it
\* has one, else from its entry for the target's namespace if it has one, else
\* from the global ceilings.
C1_Precedence ==
    loadErr = "" =>
      \A nn \in Targets :
        LET pod == GetPodLimit(c, nn)
            pvc == GetMaxPVCSize(c, nn)
        IN  IF nn \in DOMAIN lastDoc.Names
            THEN Governs(lastDoc.Names[nn], pod, pvc)
            ELSE IF nn.Namespace \in DOMAIN lastDoc.Namespaces
            THEN Governs(lastDoc.Namespaces[nn.Namespace], pod, pvc)
            ELSE GovernedByGlobal(pod, pvc)

\* A reload has succeeded with an exact entry and a namespace entry that set
\* different CPU ceilings, and the exact one is what its target gets while
\* another name of the namespace gets the namespace's.
C1_Witness ==
    LET app == NameNamespace(<<"app">>, "ns1")
        web == NameNamespace(<<"web">>, "ns1")
    IN  /\ loadErr = "" /\ loads > 1
        /\ app \in DOMAIN lastDoc.Names
        /\ "ns1" \in DOMAIN lastDoc.Namespaces
        /\ lastDoc.Names[app].CPULimit = "1"
        /\ lastDoc.Namespaces["ns1"].CPULimit = "500m"
        /\ GetPodLimit(c, app).cpu = Some(1000)
        /\ GetPodLimit(c, web).cpu = Some(500)
        /\ GetPodLimit(c, NameNamespace(<<"app">>, "ns2")).cpu = c.maxCPULimit

\* One ceiling field of an override entry: own is the entry's string, global
\* the document's global string, got what the getter returns for a target the
\* entry governs, held the global the configurer holds.
FieldInherits(own, global, got, held) ==
    IF own # ""
    THEN got = Stated(own)
    ELSE /\ got = held
         /\ global # "" => got = Stated(global)

EntryInherits(limit, nn) ==
    ~limit.Unlimited =>
      /\ FieldInherits(limit.CPULimit, lastDoc.MaxCPULimit,
                       GetPodLimit(c, nn).cpu, c.maxCPULimit)
      /\ FieldInherits(limit.MemLimit, lastDoc.MaxMemLimit,
                       GetPodLimit(c, nn).mem, c.maxMemLimit)
      /\ FieldInherits(limit.PVCSize, lastDoc.MaxPvcSize,
                       GetMaxPVCSize(c, nn).pvc, c.maxPvcSize)

\* C2: after every successful load, an override entry of the document that is
\* not unlimited gives its target its own value for each field it sets and,
\* for each field it leaves unset, the global ceiling: the one the same
\* document gives when it gives one, never "no ceiling" in that case.
C2_PartialOverrideInherits ==
    loadErr = "" =>
      /\ \A nn \in DOMAIN lastDoc.Names : EntryInherits(lastDoc.Names[nn], nn)
      /\ \A nn \in Targets :
            (nn \notin DOMAIN lastDoc.Names /\ nn.Namespace \in DOMAIN lastDoc.Namespaces)
            => EntryInherits(lastDoc.Namespaces[nn.Namespace], nn)

\* A document with globals of 2 and a namespace entry setting only the CPU
\* ceiling has been loaded: the namespace's memory and storage ceilings are 2.
C2_Witness ==
    LET web == NameNamespace(<<"web">>, "ns1")
    IN  /\ loadErr = ""
        /\ lastDoc.MaxMemLimit = "2" /\ lastDoc.MaxPvcSize = "2"
        /\ "ns1" \in DOMAIN lastDoc.Namespaces
        /\ lastDoc.Namespaces["ns1"] = Limit("1", "", "", FALSE)
        /\ GetPodLimit(c, web) = [cpu |-> Some(1000), mem |-> Some(2000), unlimited |-> FALSE]
        /\ GetMaxPVCSize(c, web) = [pvc |-> Some(2000), unlimited |-> FALSE]

\* C4: a reload that fails leaves what GetPodLimit and GetMaxPVCSize return
\* unchanged for every target.
C4_FailedReloadKeepsValues ==
    [][(loads' = loads + 1 /\ loadErr' # "") =>
          \A nn \in Targets :
             /\ GetPodLimit(c', nn) = GetPodLimit(c, nn)
             /\ GetMaxPVCSize(c', nn) = GetMaxPVCSize(c, nn)]_vars

-----------------------------------------------------------------------------
(* Properties of the admission decision. *)

\* The request being served, its outcome, and the target it is looked up by.
Req == resp[1].req

Out == resp[1].out

Target == NameNamespace(LookupName(Req), Req.Namespace)

\* A create or update whose body decodes is being served.
ServedCreateOrUpdate ==
    /\ resp # NoResp
    /\ Req.Operation \in {Create, Update}
    /\ Req.Object.decodes

Allowed == Out.kind = "response" /\ Out.Allowed

Denied == Out.kind = "response" /\ ~Out.Allowed

\* The loaded document's override for nn, by precedence, is flagged unlimited.
DocUnlimited(nn) ==
    IF nn \in DOMAIN lastDoc.Names THEN lastDoc.Names[nn].Unlimited
    ELSE IF nn.Namespace \in DOMAIN lastDoc.Namespaces
    THEN lastDoc.Namespaces[nn.Namespace].Unlimited
    ELSE FALSE

\* C3: for a target whose override (by precedence) is flagged unlimited, both
\* getters return unlimited with no quantities, and every create or update for
\* that target, of whatever kind and declaring whatever it does, is allowed.
C3_UnlimitedAllowsAll ==
    loadErr = "" =>
      /\ \A nn \in Targets :
            DocUnlimited(nn) =>
              /\ GetPodLimit(c, nn) = [cpu |-> Nil, mem |-> Nil, unlimited |-> TRUE]
              /\ GetMaxPVCSize(c, nn) = [pvc |-> Nil, unlimited |-> TRUE]
      /\ (ServedCreateOrUpdate /\ DocUnlimited(Target)) => Allowed

\* A deployment in an unlimited namespace, under global ceilings of 2, with a
\* container that requests CPU and declares a CPU limit of 2.001, was allowed.
C3_Witness ==
    /\ ServedCreateOrUpdate
    /\ Req.Kind = deploymentKind
    /\ DocUnlimited(Target)
    /\ lastDoc.MaxCPULimit = "2"
    /\ Req.Object.Containers = <<Container(Some(500), Some(0), Some(2001), Some(2000))>>
    /\ Allowed

\* The request is a create or update of a kind with a pod template case, for a
\* target that is not unlimited.
ServedLimitedWorkload ==
    /\ loadErr = ""
    /\ ServedCreateOrUpdate
    /\ Req.Kind \in PodTemplateKinds
    /\ ~DocUnlimited(Target)

ViolatesRequests(ct) ==
    \/ ct.reqCPU = Nil
    \/ ct.reqMem = Nil
    \/ (ct.reqCPU # Nil /\ ct.reqCPU[1] > 0)
    \/ (ct.reqMem # Nil /\ ct.reqMem[1] > 0)

ZeroRequests(ct) == ct.reqCPU = Some(0) /\ ct.reqMem = Some(0)

\* A limit as validatePodSpec reads it (an undeclared one as zero) is at or
\* below the ceiling, or there is no ceiling.
WithinCeiling(limit, ceiling) ==
    ceiling = Nil \/ (IF limit = Nil THEN 0 ELSE limit[1]) <= ceiling[1]

Passes(ct, lim) ==
    /\ ZeroRequests(ct)
    /\ WithinCeiling(ct.limCPU, lim.cpu)
    /\ WithinCeiling(ct.limMem, lim.mem)

DeniedFor(check, i, ceiling) ==
    /\ Denied
    /\ Out.Result # Nil
    /\ Out.Result[1].check = check
    /\ Out.Result[1].container = i
    /\ Out.Result[1].ceiling = ceiling

\* C7: for a target that is not unlimited, the first container that does not
\* pass, if its requests are zero and its declared CPU (memory) limit is
\* strictly above the defined ceiling, gets the workload denied with a message
\* citing that ceiling; a workload in which some limit equals its ceiling and
\* nothing fails is allowed.
C7_LimitAboveCeilingDenied ==
    ServedLimitedWorkload =>
      LET lim == GetPodLimit(c, Target)
          cs == Req.Object.Containers
      IN  /\ \A i \in 1..Len(cs) :
                ((\A j \in 1..(i - 1) : Passes(cs[j], lim)) /\ ZeroRequests(cs[i])) =>
                  /\ (lim.cpu # Nil /\ cs[i].limCPU # Nil /\ cs[i].limCPU[1] > lim.cpu[1])
                        => DeniedFor("limits.CPU", i, lim.cpu)
                  /\ (/\ WithinCeiling(cs[i].limCPU, lim.cpu)
                      /\ lim.mem # Nil /\ cs[i].limMem # Nil
                      /\ cs[i].limMem[1] > lim.mem[1])
                        => DeniedFor("limits.Memory", i, lim.mem)
          /\ (/\ \A i \in 1..Len(cs) : Passes(cs[i], lim)
              /\ \E i \in 1..Len(cs) :
                    \/ (lim.cpu # Nil /\ cs[i].limCPU = lim.cpu)
                    \/ (lim.mem # Nil /\ cs[i].limMem = lim.mem))
                => Allowed

\* Under a CPU ceiling of 2, a pod whose second container declares zero
\* requests and a CPU limit of 2.001 was denied, the message citing 2.
C7_Witness ==
    /\ ServedLimitedWorkload
    /\ Req.Kind = podKind
    /\ GetPodLimit(c, Target).cpu = Some(2000)
    /\ Req.Object.Containers = <<PassingContainer, Container(Some(0), Some(0), Some(2001), Some(2000))>>
    /\ DeniedFor("limits.CPU", 2, Some(2000))
    /\ Out.Result[1].value = Some(2001)

\* A declared limit is at or below the ceiling; an undeclared one is not looked at.
DeclaredWithinCeiling(limit, ceiling) ==
    (limit # Nil /\ ceiling # Nil) => limit[1] <= ceiling[1]

\* C8 as stated: for a target that is not unlimited, a workload in which every
\* container declares zero requests and has each declared limit at or below
\* the defined ceiling is allowed.
C8_DeclaredLimitsWithinCeilingAllowed ==
    ServedLimitedWorkload =>
      LET lim == GetPodLimit(c, Target)
          cs == Req.Object.Containers
      IN  (\A i \in 1..Len(cs) :
              /\ ZeroRequests(cs[i])
              /\ DeclaredWithinCeiling(cs[i].limCPU, lim.cpu)
              /\ DeclaredWithinCeiling(cs[i].limMem, lim.mem))
          => Allowed

\* C8 as amended: for a target that is not unlimited, a workload in which
\* every container declares zero requests and has each limit, an undeclared
\* limit counting as zero, at or below the defined ceiling is allowed; this
\* includes a workload with no containers.
C8_LimitsWithinCeilingAllowed ==
    ServedLimitedWorkload =>
      LET lim == GetPodLimit(c, Target)
          cs == Req.Object.Containers
      IN  (\A i \in 1..Len(cs) : Passes(cs[i], lim)) => Allowed

\* Under ceilings of 2, a deployment of two containers with zero requests,
\* the second with limits of exactly 2, was allowed.
C8_Witness ==
    /\ ServedLimitedWorkload
    /\ Req.Kind = deploymentKind
    /\ GetPodLimit(c, Target) = [cpu |-> Some(2000), mem |-> Some(2000), unlimited |-> FALSE]
    /\ Req.Object.Containers = <<PassingContainer, Container(Some(0), Some(0), Some(2000), Some(2000))>>
    /\ Allowed

\* A create or update of a volume claim for a target that is not unlimited.
ServedLimitedClaim ==
    /\ loadErr = ""
    /\ ServedCreateOrUpdate
    /\ Req.Kind = pvcKind
    /\ ~DocUnlimited(Target)

\* C9: a volume claim that declares a size, for a target that is not unlimited
\* and has a storage ceiling, is denied exactly when the size is strictly above
\* the ceiling: a size equal to it is allowed, one unit above it is denied.
C9_ClaimDeniedIffAboveCeiling ==
    LET lim == GetMaxPVCSize(c, Target)
        size == Req.Object.Storage
    IN  (ServedLimitedClaim /\ lim.pvc # Nil /\ size # Nil) =>
          /\ Out.kind = "response"
          /\ Denied <=> size[1] > lim.pvc[1]
          /\ size[1] = lim.pvc[1] => Allowed
          /\ size[1] = lim.pvc[1] + 1 => Denied

\* Under a storage ceiling of 2, a claim of one unit more was denied, the
\* message citing the size and the ceiling.
C9_Witness ==
    /\ ServedLimitedClaim
    /\ GetMaxPVCSize(c, Target).pvc = Some(2000)
    /\ Req.Object.Storage = Some(2001)
    /\ Denied
    /\ Out.Result[1] = [check |-> "size", container |-> 0,
                        value |-> Some(2001), ceiling |-> Some(2000)]

\* C10 as stated: a create or update of a volume claim that declares no size
\* is allowed, whether or not a storage ceiling applies.
C10_NoSizeAllowed ==
    (loadErr = "" /\ ServedCreateOrUpdate /\ Req.Kind = pvcKind
        /\ Req.Object.Storage = Nil) => Allowed

\* C10 as amended: a create or update of a volume claim that declares no size
\* is denied, the message saying the size is empty, whether or not a storage
\* ceiling applies; it is allowed only when its target is unlimited.
C10_NoSizeDenied ==
    (loadErr = "" /\ ServedCreateOrUpdate /\ Req.Kind = pvcKind
        /\ Req.Object.Storage = Nil) =>
      IF DocUnlimited(Target)
      THEN Allowed
      ELSE /\ Denied
           /\ Out.Result # Nil
           /\ Out.Result[1].check = "size is empty"

\* With no storage ceiling for its target, a claim declaring no size was denied.
C10_Witness ==
    /\ ServedLimitedClaim
    /\ GetMaxPVCSize(c, Target) = [pvc |-> Nil, unlimited |-> FALSE]
    /\ Req.Object.Storage = Nil
    /\ Denied
    /\ Out.Result[1].check = "size is empty"

-----------------------------------------------------------------------------
(* Properties of a getter running while load() runs. *)

\* What the returned getter hands to its caller.
Returned ==
    IF reader.call = "GetPodLimit"
    THEN [cpu |-> reader.cpu, mem |-> reader.mem, unlimited |-> reader.unlimited]
    ELSE [pvc |-> reader.pvc, unlimited |-> reader.unlimited]

\* What the getter returns when it runs alone on the configurer value cfg.
GetterOn(cfg, call, nn) ==
    IF call = "GetPodLimit" THEN GetPodLimit(cfg, nn) ELSE GetMaxPVCSize(cfg, nn)

\* C5: a getter call that overlaps a reload returns what it would return on
\* the configurer as it was before that load() took the lock or as it is
\* after load() released it, never a mix of the two.
C5_GetterSeesOneGeneration ==
    reader.pc = "done" =>
      \E g \in hist.seen : Returned = GetterOn(g, reader.call, reader.nn)

\* A GetPodLimit call was made before a successful reload released the lock,
\* the reload changed both ceilings of the call's target, and the call
\* returned both new ceilings.
C5_Witness ==
    /\ reader.pc = "done"
    /\ reader.call = "GetPodLimit"
    /\ loads = 2
    /\ loadErr = ""
    /\ Returned = GetPodLimit(hist.released, reader.nn)
    /\ Returned.cpu # Nil
    /\ Returned.mem # Nil
    /\ \E g \in hist.seen :
          /\ GetPodLimit(g, reader.nn).cpu # Returned.cpu
          /\ GetPodLimit(g, reader.nn).mem # Returned.mem

\* The step-by-step load() ends as load() is modelled in one step.
LoadStepsAgree ==
    [][(loader.pc = "unlock" /\ loader'.pc = "idle") =>
          [err |-> loadErr', cfg |-> c'] \in load(hist.released, lastDoc')]_vars

-----------------------------------------------------------------------------
(* Properties of the kinds and operations handled. *)

\* C11: a create or update of a volume claim whose target has no storage
\* ceiling and is not unlimited is allowed whatever size it declares.
C11_NoCeilingAllowsAnySize ==
    (loadErr = "" /\ ServedCreateOrUpdate /\ Req.Kind = pvcKind
        /\ GetMaxPVCSize(c, Target) = [pvc |-> Nil, unlimited |-> FALSE]
        /\ Req.Object.Storage # Nil) => Allowed
\* C12: a request whose operation is neither create nor update, or whose kind
\* has no case in handleAdmission, is allowed for every policy state and every
\* body, decodable or not: the body is not looked at.
C12_OtherOperationOrKindAllowed ==
    (/\ resp # NoResp
     /\ \/ Req.Operation \notin {Create, Update}
        \/ Req.Kind \notin PodTemplateKinds \cup {pvcKind})
      => (Allowed /\ Out.UID = Req.UID /\ Out.Result = Nil)

\* Under ceilings of 2, a DELETE of a deployment whose body does not decode
\* was allowed.
C12_Witness ==
    /\ resp # NoResp
    /\ Req.Operation = "DELETE"
    /\ Req.Kind = deploymentKind
    /\ ~Req.Object.decodes
    /\ lastDoc.MaxCPULimit = "2"
    /\ Allowed
\* The workload kinds as the orchestrator names them in a request.
OrchestratorKinds == {"Pod", "Deployment", "StatefulSet", "DaemonSet", "Job", "CronJob"}

\* C13: for each workload kind as the orchestrator names it, a create or
\* update for a target that is not unlimited whose pod template holds a
\* container that violates the policy is denied; no such kind falls through to
\* the unconditional accept.
C13_EveryWorkloadKindValidated ==
    (/\ loadErr = ""
     /\ ServedCreateOrUpdate
     /\ Req.Kind \in OrchestratorKinds
     /\ ~DocUnlimited(Target)
     /\ \E i \in 1..Len(Req.Object.Containers) :
           ViolatesRequests(Req.Object.Containers[i]))
      => Denied

-----------------------------------------------------------------------------
(* Properties of the pod name lookup. *)

\* The decision on the served request is the one taken under the ceilings and
\* the unlimited flag of the target nn.
DecidedAs(nn) ==
    LET lim == GetPodLimit(c, nn)
    IN  IF lim.unlimited THEN Allowed
        ELSE IF validatePodSpec(Req, Req.Object.Containers, lim.cpu, lim.mem) = Nil
        THEN Allowed
        ELSE Denied

\* C14: a pod whose name is a stem followed by two generated alphanumeric
\* segments is looked up under the stem in the request's namespace, and is
\* decided under the ceilings and unlimited flag of (stem, namespace), also
\* when the stem itself contains dashes.
C14_GeneratedPodLooksUpStem ==
    (/\ resp # NoResp
     /\ Req.Kind = podKind
     /\ Len(Req.Object.Name) >= 3
     /\ Req.Object.Name[Len(Req.Object.Name) - 1] \in AlnumSegments
     /\ Req.Object.Name[Len(Req.Object.Name)] \in AlnumSegments
     /\ SubSeq(Req.Object.Name, 1, Len(Req.Object.Name) - 2) # <<"">>)
      => LET stem == SubSeq(Req.Object.Name, 1, Len(Req.Object.Name) - 2)
         IN  /\ LookupName(Req) = stem
             /\ DecidedAs(NameNamespace(stem, Req.Namespace))

\* The pod my-app-7d9f8c6b5-x2z4k in ns1, with a container that requests CPU,
\* was allowed under the unlimited override keyed (my-app, ns1).
C14_Witness ==
    /\ resp # NoResp
    /\ Req.Kind = podKind
    /\ Req.Namespace = "ns1"
    /\ Req.Object.Name = <<"my", "app", "7d9f8c6b5", "x2z4k">>
    /\ NameNamespace(<<"my", "app">>, "ns1") \in DOMAIN lastDoc.Names
    /\ lastDoc.Names[NameNamespace(<<"my", "app">>, "ns1")].Unlimited
    /\ "ns1" \notin DOMAIN lastDoc.Namespaces
    /\ Req.Object.Containers = <<Container(Some(500), Some(0), Nil, Nil)>>
    /\ Allowed

-----------------------------------------------------------------------------
(* Properties of the process and the Watch loop. *)

\* C15: after Close is called on the Configurer, the Watch loop eventually
\* terminates.
C15_WatchTerminatesAfterClose == proc.closed ~> (proc.watch = "returned")

\* C20: a failing initial load ends the process with no Configurer, the Watch
\* loop not started and no request ever served; a failing reload leaves the
\* Watch loop at its select, ready for the next trigger.
C20_StartupFatalReloadNot ==
    /\ [](proc.main = "exited" =>
            /\ ~proc.configurer
            /\ proc.watch = "notstarted"
            /\ resp = NoResp)
    /\ [][/\ (proc.main = "start" /\ loads' = loads + 1 /\ loadErr' # "")
                => proc'.main = "exited"
          /\ (proc.main = "start" /\ loads' = loads + 1 /\ loadErr' = "") =>
                (proc'.main = "serving" /\ proc'.watch = "select")
          /\ proc.main = "exited" => UNCHANGED vars
          /\ resp' # resp => proc.main = "serving"
          /\ (proc.watch = "load" /\ loads' = loads + 1 /\ loadErr' # "") =>
                (proc'.watch = "select" /\ proc'.main = proc.main)]_vars

\* The first load met an unparseable quantity and the process has exited.
C20_Witness ==
    /\ proc.main = "exited"
    /\ loads = 1
    /\ loadErr = "could not parse MaxPvcSize"
    /\ proc.watch = "notstarted"

-----------------------------------------------------------------------------
(* Properties of the lock and of the values handed out. *)

\* The positions of load() at which a quantity is parsed or a table is built.
ParseWork == {"MaxCPULimit", "MaxMemLimit", "MaxPvcSize", "tables", "namespaces", "names"}

\* C16: a getter is never made to wait by a reload in progress: the exclusive
\* lock is not held while load() parses quantities or builds the tables, and
\* a reader about to take the shared lock can take it.
C16_ReaderNeverWaitsForReload ==
    /\ m.writer => loader.pc \notin ParseWork
    /\ reader.pc = "rlock" => CanRLock(m)

\* The value behind a pointer handed to the caller.
Pointee(ptr) == IF ptr = Nil THEN Nil ELSE Some(heap.cells[ptr[1]])

\* C17: changing a quantity a getter returned never changes the policy store:
\* the store reads as load() left it for every target, and a later call
\* returns what it would have returned without the change.
C17_ReturnedQuantitiesAreCopies ==
    /\ \A nn \in Targets :
          /\ GetPodLimit(StoreView(c, heap.cells), nn) = GetPodLimit(c, nn)
          /\ GetMaxPVCSize(StoreView(c, heap.cells), nn) = GetMaxPVCSize(c, nn)
    /\ (heap.call = "GetPodLimit" /\ heap.fresh) =>
          /\ Pointee(heap.cpu) = GetPodLimit(c, heap.nn).cpu
          /\ Pointee(heap.mem) = GetPodLimit(c, heap.nn).mem
    /\ (heap.call = "GetMaxPVCSize" /\ heap.fresh) =>
          Pointee(heap.pvc) = GetMaxPVCSize(c, heap.nn).pvc

\* After a caller changed quantities it had been handed, a later GetPodLimit
\* call returned the CPU ceiling of the document.
C17_Witness ==
    /\ heap.mutations >= 1
    /\ heap.call = "GetPodLimit"
    /\ heap.fresh
    /\ heap.cpu # Nil
    /\ Pointee(heap.cpu) = Some(2000)

-----------------------------------------------------------------------------
(* Properties of the response. *)

\* C18: every response of HandleAdmission carries the UID of its request;
\* every deny response carries a non-empty status message, and an allow
\* response carries none.
C18_ResponseCarriesUIDAndMessage ==
    (resp # NoResp /\ Out.kind = "response") =>
      /\ Out.UID = Req.UID
      /\ Out.Allowed => Out.Result = Nil
      /\ ~Out.Allowed => (Out.Result # Nil /\ Out.Result[1].check # "")

\* The request with UID uid-2, a job whose container requests memory, was
\* denied under that UID with a message.
C18_Witness ==
    /\ resp # NoResp
    /\ Req.UID = "uid-2"
    /\ Req.Kind = jobKind
    /\ Out.kind = "response"
    /\ ~Out.Allowed
    /\ Out.UID = "uid-2"
    /\ Out.Result # Nil
    /\ Out.Result[1].check = "requests.Memory > 0"

\* What ServeHTTP wrote for the request being served.
Http == resp[1].http

\* C19: a create or update for a kind with a case in handleAdmission whose
\* body does not decode ends in an error and no response, answered by the
\* HTTP layer with a failure status and no admission review; a policy denial
\* is a response with allowed = false, written in a review with no error.
C19_DecodeErrorIsNotADecision ==
    /\ (/\ resp # NoResp
        /\ Req.Operation \in {Create, Update}
        /\ Req.Kind \in PodTemplateKinds \cup {pvcKind}
        /\ ~Req.Object.decodes)
          => (Out.kind = "error" /\ Http.status = 503 /\ Http.review = Nil)
    /\ (resp # NoResp /\ Out.kind = "response") =>
          (Http.status = 200 /\ Http.review = Some(Out))
    /\ (resp # NoResp /\ Http.review # Nil /\ ~Http.review[1].Allowed) =>
          (Req.Object.decodes /\ Out.kind = "response" /\ Out.Result # Nil)

\* An UPDATE of a deployment whose body does not decode was answered with
\* status 503 and no review.
C19_Witness ==
    /\ resp # NoResp
    /\ Req.Operation = Update
    /\ Req.Kind = deploymentKind
    /\ ~Req.Object.decodes
    /\ Out = DecodeError
    /\ Http = [status |-> 503, review |-> Nil]

-----------------------------------------------------------------------------
(* Properties of the request checks and their order. *)

\* A container declares both requests, each at or below the request ceiling rc.
RequestsWithin(ct, rc) ==
    /\ ct.reqCPU # Nil /\ ct.reqCPU[1] <= rc
    /\ ct.reqMem # Nil /\ ct.reqMem[1] <= rc

\* C21: requests are bounded by a request ceiling, not forced to zero: under
\* request ceilings of 500m (the document's maxCPURequest and maxMemRequest,
\* for which Config has no field), a workload whose containers declare
\* requests at or below them, some of them above zero, and limits at or below
\* the limit ceilings is allowed.
C21_RequestsBoundedByCeiling ==
    ServedLimitedWorkload =>
      LET lim == GetPodLimit(c, Target)
          cs == Req.Object.Containers
      IN  (/\ \A i \in 1..Len(cs) :
                /\ RequestsWithin(cs[i], 500)
                /\ WithinCeiling(cs[i].limCPU, lim.cpu)
                /\ WithinCeiling(cs[i].limMem, lim.mem)
           /\ \E i \in 1..Len(cs) : ~ZeroRequests(cs[i]))
          => Allowed

-----------------------------------------------------------------------------
(* Properties of ServeHTTP. *)

\* C22: for every admission review that decodes and every loaded policy,
\* handling the request ends with a response or an error and never aborts;
\* this covers a claim that declares a size while no storage ceiling is
\* configured, and a review that carries no request.
C22_HandlingNeverAborts ==
    (resp # NoResp /\ resp[1].review.decodes) =>
        resp[1].out.kind \in {"response", "error"}

-----------------------------------------------------------------------------
(* Properties of the order of the checks. *)

\* The six checks in the order the claim gives them.
CheckOrder ==
    << "requests.CPU is empty", "requests.Memory is empty", "requests.CPU > 0",
       "requests.Memory > 0", "limits.CPU", "limits.Memory" >>

\* The container fails the k-th check, taken on its own.
CheckFails(k, ct, lim) ==
    CASE k = 1 -> ct.reqCPU = Nil
      [] k = 2 -> ct.reqMem = Nil
      [] k = 3 -> ct.reqCPU # Nil /\ ct.reqCPU[1] > 0
      [] k = 4 -> ct.reqMem # Nil /\ ct.reqMem[1] > 0
      [] k = 5 -> ~WithinCeiling(ct.limCPU, lim.cpu)
      [] OTHER -> ~WithinCeiling(ct.limMem, lim.mem)

\* Every (container, check) pair that fails in the workload being served.
Failures ==
    LET lim == GetPodLimit(c, Target)
        cs == Req.Object.Containers
    IN  { f \in (1..Len(cs)) \X (1..6) : CheckFails(f[2], cs[f[1]], lim) }

Before(f, g) == f[1] < g[1] \/ (f[1] = g[1] /\ f[2] <= g[2])

\* C23: when a workload fails several checks, the denial reports only the
\* first: containers in declared order and, within a container, the checks in
\* the order CPU request missing, memory request missing, CPU request > 0,
\* memory request > 0, CPU limit above ceiling, memory limit above ceiling.
C23_FirstFailureReported ==
    (ServedLimitedWorkload /\ Failures # {}) =>
        \E f \in Failures :
            /\ \A g \in Failures : Before(f, g)
            /\ Denied
            /\ Out.Result # Nil
            /\ Out.Result[1].container = f[1]
            /\ Out.Result[1].check = CheckOrder[f[2]]

\* Under ceilings of 2, a deployment whose first container requests memory
\* and has both limits above the ceilings, and whose second container declares
\* no requests, was denied for the memory request of the first container.
C23_Witness ==
    /\ ServedLimitedWorkload
    /\ Req.Kind = deploymentKind
    /\ GetPodLimit(c, Target) = [cpu |-> Some(2000), mem |-> Some(2000), unlimited |-> FALSE]
    /\ Req.Object.Containers =
          << Container(Some(0), Some(500), Some(2001), Some(2001)),
             Container(Nil, Nil, Nil, Nil) >>
    /\ Cardinality(Failures) = 5
    /\ Denied
    /\ Out.Result[1].container = 1
    /\ Out.Result[1].check = "requests.Memory > 0"

-----------------------------------------------------------------------------
(* Properties of the Watch loop's loads and counters. *)

\* C24: the Watch loop calls load exactly once for each tick and for each
\* notification for the watched path that it receives (the loads made so far,
\* the one of NewConfigurer apart, and the one about to be made equal the
\* triggers received); a notification for another path and a watch error
\* trigger no load; after each of these the loop is back at its select.
C24_OneLoadPerTrigger ==
    /\ [](proc.configurer =>
            proc.triggers = (loads - 1) + (IF proc.watch = "load" THEN 1 ELSE 0))
    /\ [][/\ (proc'.triggers # proc.triggers) =>
                /\ proc.watch = "select"
                /\ proc'.triggers = proc.triggers + 1
                /\ proc'.last \in {"tick", "event"}
                /\ proc'.watch = "load"
                /\ loads' = loads
          /\ (proc.watch = "load" /\ proc'.watch # "load") =>
                (loads' = loads + 1 /\ proc'.watch = "select")
          /\ (proc.configurer /\ loads' # loads) =>
                (proc.watch = "load" /\ loads' = loads + 1)
          /\ (proc'.last # proc.last /\ proc'.last \in {"other event", "watch error"}) =>
                /\ ~proc.closed
                /\ loads' = loads
                /\ proc'.triggers = proc.triggers
                /\ proc'.watch = "select"]_vars

\* With the watch open, a tick and a notification for the watched path were
\* each followed by one load, and a notification for another path came last.
C24_Witness ==
    /\ ~proc.closed
    /\ proc.triggers = 2
    /\ loads = 3
    /\ proc.last = "other event"
    /\ proc.watch = "select"

-----------------------------------------------------------------------------
(* Properties of the store across reloads. *)

\* C26: after every successful load, following any sequence of earlier loads,
\* the policy store is exactly what the most recently loaded document
\* specifies, that is, what loading that document into a new Configurer
\* gives: a global ceiling or an override of an earlier document that the
\* latest omits is no longer in effect.
C26_StoreIsLatestDocument ==
    loadErr = "" =>
        \E out \in load(NewConfigurerValue, lastDoc) :
            out.err = "" /\ out.cfg = c

-----------------------------------------------------------------------------
(* Properties of the Configer's lock. *)

\* C27: every reader operation releases its shared lock on every return
\* path: when no reader operation is in progress, no shared lock is held (so
\* the next reload can take the exclusive lock).
C27_ReadersReleaseLock ==
    reader.pc = "idle" => m.readers = 0

-----------------------------------------------------------------------------
(* Properties of an exact override beside a namespace override. *)

\* An unset field of a document entry: the stored field is the global the
\* configurer holds, which is the document's global when it states one.
UnsetTakesGlobal(own, global, stored, held) ==
    own = "" => (stored = held /\ (global # "" => stored = Stated(global)))

\* C28: after a successful load of a document with an exact override for nn
\* and an override for nn's namespace, each ceiling field the exact override
\* leaves unset holds the global value, whatever the namespace override sets
\* and also when it is unlimited; the getters answer for nn from the exact
\* override alone, as they would were the namespace override not there.
C28_ExactOverrideIgnoresNamespace ==
    loadErr = "" =>
      \A nn \in DOMAIN lastDoc.Names :
        nn.Namespace \in DOMAIN lastDoc.Namespaces =>
          LET own == lastDoc.Names[nn]
              e == c.excludedNames[nn]
              pod == GetPodLimit(c, nn)
              pvc == GetMaxPVCSize(c, nn)
              alone == [c EXCEPT !.excludedNamespaces = EmptyTable]
          IN  /\ UnsetTakesGlobal(own.CPULimit, lastDoc.MaxCPULimit, e.CPULimit, c.maxCPULimit)
              /\ UnsetTakesGlobal(own.MemLimit, lastDoc.MaxMemLimit, e.MemLimit, c.maxMemLimit)
              /\ UnsetTakesGlobal(own.PVCSize, lastDoc.MaxPvcSize, e.PVCSize, c.maxPvcSize)
              /\ pod.unlimited = own.Unlimited
              /\ pvc.unlimited = own.Unlimited
              /\ ~own.Unlimited =>
                    /\ pod.cpu = e.CPULimit
                    /\ pod.mem = e.MemLimit
                    /\ pvc.pvc = e.PVCSize
              /\ pod = GetPodLimit(alone, nn)
              /\ pvc = GetMaxPVCSize(alone, nn)

\* Under globals of 2, the exact override of app in ns1 sets only the CPU
\* ceiling while the override of ns1 sets every ceiling to 0.5: app gets
\* memory and storage ceilings of 2.
C28_Witness ==
    LET app == NameNamespace(<<"app">>, "ns1")
    IN  /\ loadErr = ""
        /\ lastDoc.MaxMemLimit = "2" /\ lastDoc.MaxPvcSize = "2"
        /\ app \in DOMAIN lastDoc.Names
        /\ "ns1" \in DOMAIN lastDoc.Namespaces
        /\ lastDoc.Names[app] = Limit("1", "", "", FALSE)
        /\ lastDoc.Namespaces["ns1"] = Limit("500m", "500m", "500m", FALSE)
        /\ GetPodLimit(c, app) = [cpu |-> Some(1000), mem |-> Some(2000), unlimited |-> FALSE]
        /\ GetMaxPVCSize(c, app) = [pvc |-> Some(2000), unlimited |-> FALSE]

-----------------------------------------------------------------------------
(* Properties of a pod named as an exact override. *)

\* C29: a pod whose own name is the name of an exact override in its
\* namespace, dashes in the name or not, is looked up under that name and
\* decided under that override; a pod name without a dash is looked up
\* unchanged.
C29_PodNamedAsOverrideUsesIt ==
    (resp # NoResp /\ Req.Kind = podKind) =>
        /\ NameNamespace(Req.Object.Name, Req.Namespace) \in DOMAIN lastDoc.Names =>
              /\ LookupName(Req) = Req.Object.Name
              /\ DecidedAs(NameNamespace(Req.Object.Name, Req.Namespace))
        /\ Len(Req.Object.Name) <= 1 => LookupName(Req) = Req.Object.Name

-----------------------------------------------------------------------------
(* Properties of an undeclared limit. *)

\* The served workload was denied by the named limit check on container i.
DeniedByLimit(check, i) ==
    /\ Denied
    /\ Out.Result # Nil
    /\ Out.Result[1].check = check
    /\ Out.Result[1].container = i

\* C30 as stated: for a target that is not unlimited, a container that
\* declares no CPU (memory) limit passes the CPU (memory) limit check whatever
\* the ceiling is: only a declared limit above the ceiling causes a limit
\* denial.
C30_OnlyDeclaredLimitDenied ==
    ServedLimitedWorkload =>
      LET lim == GetPodLimit(c, Target)
          cs == Req.Object.Containers
      IN  \A i \in 1..Len(cs) :
            /\ DeniedByLimit("limits.CPU", i) =>
                  (lim.cpu # Nil /\ cs[i].limCPU # Nil /\ cs[i].limCPU[1] > lim.cpu[1])
            /\ DeniedByLimit("limits.Memory", i) =>
                  (lim.mem # Nil /\ cs[i].limMem # Nil /\ cs[i].limMem[1] > lim.mem[1])

\* A limit denial is due: the limit is declared and above the ceiling, or it
\* is undeclared and the ceiling is below zero.
LimitDenialDue(limit, ceiling) ==
    /\ ceiling # Nil
    /\ \/ (limit # Nil /\ limit[1] > ceiling[1])
       \/ (limit = Nil /\ ceiling[1] < 0)

\* C30 as amended: an undeclared limit is compared as zero, so it passes the
\* limit check under every ceiling that is not below zero and under no
\* ceiling; a limit denial is caused only by a declared limit above the
\* ceiling or by an undeclared limit under a ceiling below zero, and the
\* first container with zero requests and such a limit is denied.
C30_UndeclaredLimitIsZero ==
    ServedLimitedWorkload =>
      LET lim == GetPodLimit(c, Target)
          cs == Req.Object.Containers
      IN  \A i \in 1..Len(cs) :
            /\ DeniedByLimit("limits.CPU", i) => LimitDenialDue(cs[i].limCPU, lim.cpu)
            /\ DeniedByLimit("limits.Memory", i) => LimitDenialDue(cs[i].limMem, lim.mem)
            /\ ((\A j \in 1..(i - 1) : Passes(cs[j], lim)) /\ ZeroRequests(cs[i])) =>
                  /\ LimitDenialDue(cs[i].limCPU, lim.cpu) => DeniedByLimit("limits.CPU", i)
                  /\ (cs[i].limCPU = Nil /\ (lim.cpu = Nil \/ lim.cpu[1] >= 0)) =>
                        ~DeniedByLimit("limits.CPU", i)
                  /\ (cs[i].limMem = Nil /\ (lim.mem = Nil \/ lim.mem[1] >= 0)) =>
                        ~DeniedByLimit("limits.Memory", i)

\* Under ceilings of 2, a pod whose container declares zero requests, no CPU
\* limit and a memory limit of 2 was allowed.
C30_Witness ==
    /\ ServedLimitedWorkload
    /\ Req.Kind = podKind
    /\ GetPodLimit(c, Target) = [cpu |-> Some(2000), mem |-> Some(2000), unlimited |-> FALSE]
    /\ Req.Object.Containers = <<Container(Some(0), Some(0), Nil, Some(2000))>>
    /\ Allowed

====
